---------------------------- MODULE Spec2Model ----------------------------
(***************************************************************************)
(* State-machine model of the plotter control core:                        *)
(*   - CommandQueue            (lib/CommandQueue.ts)                       *)
(*   - SafetyController        (lib/SafetyController.ts)                   *)
(*   - PathExecutor            (lib/pathUtils.ts)                          *)
(*   - the orchestration layer (app/page.tsx: handleLoadSequence,          *)
(*     executeCommand, moveToPosition, setPenPosition, emergencyStop)      *)
(* JavaScript runs on one cooperative loop: an action of the model is the  *)
(* code that runs between two suspension points (await / timer / event).   *)
(***************************************************************************)
EXTENDS Integers, Sequences, FiniteSets, TLC

(***************************************************************************)
(* Bounds of the model                                                     *)
(***************************************************************************)
\* number of operations that may be submitted to one CommandQueue
MaxOps == 4

Ops == 1..MaxOps

(***************************************************************************)
(* CommandQueue state                                                      *)
(***************************************************************************)
VARIABLES
  queue,            \* CommandQueue.queue: pending commands, head first
  executing,        \* CommandQueue.executing
  currentCommand,   \* CommandQueue.currentCommand (0 = null)
  submitted,        \* number of add() calls so far; operation k is the k-th add()
  opState,          \* per operation: "new" | "queued" | "running" | "done" | "dropped"
  handle,           \* per operation, the promise add() returned:
                    \*   "none" | "pending" | "resolved" | "rejected"
  outcome,          \* per operation, how its command ended: "none" | "ok" | "fail" | "timeout"
  lastSettled,      \* the operation whose add() handle settled last (0 = none yet)
  outOfOrder,       \* some handle settled after the handle of a later-submitted operation
  ranThroughClear,  \* operations that were in flight when clear() was called
  lastCall          \* the queue entry point that ran last

qvars == <<queue, executing, currentCommand, submitted, opState, handle,
           outcome, lastSettled, outOfOrder, ranThroughClear, lastCall>>

(***************************************************************************)
(* SafetyController state                                                  *)
(***************************************************************************)
VARIABLES
  hubConnected,     \* what hub.isConnected() answers
  monitoring,       \* SafetyController.monitoringInterval # null
  wanted,           \* the owner called startMonitoring() and has not stopped it since
  stopRequested,    \* SafetyController.stopRequested, the re-entrancy guard
  ticks,            \* poll callbacks in flight: per slot the port whose status is awaited
  estopPhase,       \* handleViolation awaiting emergencyStop(): "idle" | "braking"
  cooldown,         \* poll periods left on the setTimeout that frees the guard; 0 = none
  sinceStop,        \* poll periods since the monitor last started an emergency stop
  lastCheck         \* what checkLimits() saw and did, when the last step ran it

svars == <<hubConnected, monitoring, wanted, stopRequested, ticks,
           estopPhase, cooldown, sinceStop, lastCheck>>

(***************************************************************************)
(* Hardware link                                                           *)
(***************************************************************************)
VARIABLES
  estopLog          \* the emergency stop the last step started, if it started one:
                    \* who issued it, the queue length it left, the ports it braked

VARIABLES
  issued            \* the rotations handed to the motors, oldest first: the port, the
                    \* degrees, the move they belong to (0 = the closing pen-up) and
                    \* whether the call was made inside a queued command

hvars == <<estopLog, issued>>

NoStop == [by |-> "none", pending |-> 0, braked |-> {}]

(***************************************************************************)
(* PathExecutor state                                                      *)
(***************************************************************************)
VARIABLES
  exSim,            \* PathExecutor.simulationMode
  exPc,             \* where executeSequence stands: "idle" | "pen" | "axes" | "sim" |
                    \*   "penup" | "resolved" | "rejected"
  exMoves,          \* optimizedMoves of the running call
  exI,              \* 1-based index of the move being executed (0 = none yet)
  exPos,            \* <<currentX, currentY>>
  rotB, rotA,       \* the two rotations of Promise.all: "none" | "inflight" | "ok" | "fail"
  rotC,             \* the pen rotation the executor awaits or awaited last, likewise
  exFailedAt,       \* the move during which a step failed (0 = none)
  exProgress        \* the values onProgress was called with, oldest first, each as the
                    \* fraction num / den

evars == <<exSim, exPc, exMoves, exI, exPos, rotB, rotA, rotC, exFailedAt, exProgress>>

(***************************************************************************)
(* executeCommand state (app/page.tsx)                                     *)
(***************************************************************************)
VARIABLES
  timer,            \* per operation, the clock ticks since executeCommand's wrapper armed
                    \* its setTimeout (-1 = no timer armed)
  body,             \* per operation, the command() the wrapper awaits:
                    \*   "none" | "running" | "awaiting" | "settled"
  awaits            \* per operation, the operation its command() submitted through
                    \* moveToPosition and awaits (0 = none, -1 = it is such a nested
                    \* operation itself)

tvars == <<timer, body, awaits>>

(***************************************************************************)
(* SafetyController.emergencyStop: the brakes                              *)
(***************************************************************************)
VARIABLES
  attached,         \* the ports for which hub.getDeviceAtPort(port) returns a motor
  stopPc,           \* emergencyStop(): "idle" | "braking" | "done"
  brake,            \* per port, the brake of the running emergencyStop():
                    \*   "none" | "absent" | "inflight" | "ok" | "fail"
  notes             \* the notifications of the running emergencyStop(): the ports of
                    \* the 'Failed to stop motor' messages, and whether 'Emergency stop
                    \* activated' / 'Emergency stop failed' was sent

bvars == <<attached, stopPc, brake, notes>>

(***************************************************************************)
(* MovementValidator: the validator in use, the last call and its result   *)
(***************************************************************************)
VARIABLES
  vCfg,             \* the constructor arguments of the validator (a key of Config)
  vCall,            \* the call whose result the caller holds: the function and its arguments
  vRes              \* what that call returned

mvars == <<vCfg, vCall, vRes>>

(***************************************************************************)
(* A caller of PathProcessor.optimizePlotterMoves                          *)
(***************************************************************************)
VARIABLES
  optPc,            \* "idle" | "once" | "twice": the calls made on the current list
  optSim,           \* the simulationMode argument of the calls
  optGiven,         \* the move list as it was handed to the first call
  optArg,           \* the caller's array after the first call (its objects are shared
                    \* with the result, and the reduce writes to them)
  optOnce,          \* the array the first call returned
  optTwice          \* the array the second call, made on optOnce, returned

pvars == <<optPc, optSim, optGiven, optArg, optOnce, optTwice>>

(***************************************************************************)
(* PathPlanner and the sequences it returns                                *)
(***************************************************************************)
VARIABLES
  plValidator,      \* PathPlanner.validator is set (initialize() was called)
  plPc,             \* "idle" | "returned" | "saved" | "reloaded"
  plCall,           \* the Planner function called last and its argument
  plRes,            \* what the call gave: thrown, or the sequence it returned
  plSaved,          \* the sequence handed to downloadSequence
  plDoc             \* the document downloadSequence wrote

lvars == <<plValidator, plPc, plCall, plRes, plSaved, plDoc>>

(***************************************************************************)
(* A call of PathPlanner.parseSVGPath                                      *)
(***************************************************************************)
VARIABLES
  svPc,             \* "idle" | "returned"
  svCommands,       \* what parseSVG(svgPath) gave: the path commands, in order
  svScale,          \* the scale argument
  svEmitted,        \* per command, the moves the loop pushed for it
  svPenDown,        \* per command, penDown after it
  svMoves,          \* moves when the loop and the closing pen-up are done
  svRes             \* the list validateAndScalePath returned

gvars == <<svPc, svCommands, svScale, svEmitted, svPenDown, svMoves, svRes>>

\* the state of the components declared after the executor
rest == <<bvars, mvars, pvars, lvars, gvars>>

ovars == <<tvars, rest>>

vars == <<qvars, svars, hvars, evars, tvars, rest>>

\* public getters of CommandQueue
isExecuting == executing
pendingCommands == Len(queue)

InFlight == {i \in Ops : opState[i] = "running"}

QueueInit ==
  /\ queue = <<>>
  /\ executing = FALSE
  /\ currentCommand = 0
  /\ submitted = 0
  /\ opState = [i \in Ops |-> "new"]
  /\ handle = [i \in Ops |-> "none"]
  /\ outcome = [i \in Ops |-> "none"]
  /\ lastSettled = 0
  /\ outOfOrder = FALSE
  /\ ranThroughClear = {}
  /\ lastCall = "init"

\* processQueue(), up to its await: the guard, the flag, the shift and the
\* synchronous start of execute().  started = 0 when the guard returns early.
ProcessQueue(q, ex, cur) ==
  IF ex \/ Len(q) = 0
    THEN [queue |-> q, executing |-> ex, currentCommand |-> cur, started |-> 0]
    ELSE [queue |-> Tail(q), executing |-> TRUE, currentCommand |-> Head(q),
          started |-> Head(q)]

\* the state of an operation after a processQueue() call that started `started`
AfterStart(st, started) ==
  IF started = 0 THEN st ELSE [st EXCEPT ![started] = "running"]

\* the queue and its operations as one value, so that one step of a caller can
\* chain several queue calls
QState ==
  [queue |-> queue, executing |-> executing, currentCommand |-> currentCommand,
   submitted |-> submitted, opState |-> opState, handle |-> handle,
   outcome |-> outcome, lastSettled |-> lastSettled, outOfOrder |-> outOfOrder,
   ranThroughClear |-> ranThroughClear, lastCall |-> lastCall]

SetQueue(q) ==
  /\ queue' = q.queue
  /\ executing' = q.executing
  /\ currentCommand' = q.currentCommand
  /\ submitted' = q.submitted
  /\ opState' = q.opState
  /\ handle' = q.handle
  /\ outcome' = q.outcome
  /\ lastSettled' = q.lastSettled
  /\ outOfOrder' = q.outOfOrder
  /\ ranThroughClear' = q.ranThroughClear
  /\ lastCall' = q.lastCall

\* add(command): push, then processQueue()
QAdd(q) ==
  LET id == q.submitted + 1
      r  == ProcessQueue(Append(q.queue, id), q.executing, q.currentCommand)
  IN [q EXCEPT !.submitted = id,
               !.queue = r.queue,
               !.executing = r.executing,
               !.currentCommand = r.currentCommand,
               !.opState = AfterStart([q.opState EXCEPT ![id] = "queued"], r.started),
               !.handle = [q.handle EXCEPT ![id] = "pending"],
               !.lastCall = "add"]

\* a wrapper whose timeout resolves the handle
SettledHandle_TimeoutResolves(result) == IF result = "fail" THEN "rejected" ELSE "resolved"

\* the wrapper add() builds around command(): resolve() on success, reject(error)
\* on failure
SettledHandle(result) == IF result = "ok" THEN "resolved" ELSE "rejected"

\* a drain loop that a failed command aborts
DrainAfter_StopsOnFailure(result, q) ==
  IF result = "fail"
    THEN [queue |-> q, executing |-> FALSE, currentCommand |-> 0, started |-> 0]
    ELSE ProcessQueue(q, FALSE, 0)

\* what processQueue() does after its await, whatever execute() did: the flag and
\* currentCommand are reset and processQueue() is called again
DrainAfter(result, q) == ProcessQueue(q, FALSE, 0)

\* an in-flight operation i ends with `result`: execute() settles the handle, then
\* processQueue() resumes after its await
QComplete(q, i, result) ==
  LET r == DrainAfter(result, q.queue)
  IN [q EXCEPT !.queue = r.queue,
               !.executing = r.executing,
               !.currentCommand = r.currentCommand,
               !.opState = AfterStart([q.opState EXCEPT ![i] = "done"], r.started),
               !.outcome = [q.outcome EXCEPT ![i] = result],
               !.handle = [q.handle EXCEPT ![i] = SettledHandle(result)],
               !.lastSettled = i,
               !.outOfOrder = (q.outOfOrder
                               \/ \E j \in Ops : j > i /\ q.handle[j] \in {"resolved", "rejected"}),
               !.lastCall = "complete"]

\* a clear() that leaves the head of the queue in place
ClearedQueue_KeepsHead(q) == IF q = <<>> THEN q ELSE <<Head(q)>>

\* clear(): the three assignments
ClearedQueue(q) == <<>>
ClearedExecuting(ex) == FALSE

\* a clear() that rejects the handles of the commands it removes
AbandonedHandle_Rejected(h) == "rejected"

\* clear() drops the queue array and calls neither resolve nor reject of the
\* commands in it
AbandonedHandle(h) == h

QClear(q) ==
  LET left == ClearedQueue(q.queue)
  IN [q EXCEPT !.queue = left,
               !.executing = ClearedExecuting(q.executing),
               !.currentCommand = 0,
               !.opState = [i \in Ops |->
                              IF q.opState[i] = "queued"
                                   /\ ~\E k \in 1..Len(left) : left[k] = i
                                THEN "dropped" ELSE q.opState[i]],
               !.handle = [i \in Ops |->
                             IF q.opState[i] = "queued"
                                  /\ ~\E k \in 1..Len(left) : left[k] = i
                               THEN AbandonedHandle(q.handle[i]) ELSE q.handle[i]],
               !.ranThroughClear =
                   q.ranThroughClear \cup {i \in Ops : q.opState[i] = "running"},
               !.lastCall = "clear"]

\* a caller submits a command
Add ==
  /\ submitted < MaxOps
  /\ SetQueue(QAdd(QState))
  /\ estopLog' = NoStop
  /\ UNCHANGED <<issued, evars, ovars>>
  /\ UNCHANGED svars

\* a running command resolves
CompleteOk ==
  /\ \E i \in Ops : opState[i] = "running" /\ SetQueue(QComplete(QState, i, "ok"))
  /\ estopLog' = NoStop
  /\ UNCHANGED <<issued, evars, ovars>>
  /\ UNCHANGED svars

\* a running command rejects
CompleteFail ==
  /\ \E i \in Ops : opState[i] = "running" /\ SetQueue(QComplete(QState, i, "fail"))
  /\ estopLog' = NoStop
  /\ UNCHANGED <<issued, evars, ovars>>
  /\ UNCHANGED svars

\* clear() called on its own
Clear ==
  /\ SetQueue(QClear(QState))
  /\ estopLog' = NoStop
  /\ UNCHANGED <<issued, evars, ovars>>
  /\ UNCHANGED svars

(***************************************************************************)
(* SafetyController                                                        *)
(***************************************************************************)
\* number of poll callbacks that may be suspended in a telemetry read at once
MaxTicks == 1

\* MONITORING_INTERVAL, the poll period, and the delay of the setTimeout in
\* handleViolation, both in ms
MONITORING_INTERVAL == 100
CooldownMs == 1000
\* the cool-down in poll periods
CooldownTicks == CooldownMs \div MONITORING_INTERVAL

Ports == <<"A", "B", "C">>
PortSet == {"A", "B", "C"}
Slots == 1..MaxTicks

\* SafetyController.limits as the constructor sets them
Limits(port) ==
  CASE port = "A" -> [maxSpeed |-> 100, maxAcceleration |-> 500, minDegrees |-> -360,
                      maxDegrees |-> 360, maxCurrent |-> 1000, maxTemperature |-> 50,
                      maxMotorLoad |-> 90]
    [] port = "B" -> [maxSpeed |-> 100, maxAcceleration |-> 500, minDegrees |-> -180,
                      maxDegrees |-> 180, maxCurrent |-> 1000, maxTemperature |-> 50,
                      maxMotorLoad |-> 90]
    [] port = "C" -> [maxSpeed |-> 50, maxAcceleration |-> 200, minDegrees |-> -45,
                      maxDegrees |-> 45, maxCurrent |-> 500, maxTemperature |-> 50,
                      maxMotorLoad |-> 90]

\* MotorStatus samples the hardware may report (the inputs of the model)
Status(p, s, c, t, l) ==
  [currentPosition |-> p, speed |-> s, current |-> c, temperature |-> t, load |-> l]

Samples ==
  [ nominal |-> Status(0, 10, 100, 40, 50),
    hot     |-> Status(0, 10, 100, 55, 50),
    brisk   |-> Status(0, -60, 100, 40, 50),
    high    |-> Status(200, 10, 100, 40, 50),
    surge   |-> Status(-400, 120, 1200, 40, 50),
    stalled |-> Status(0, 10, 100, 55, 95) ]

SampleIds == DOMAIN Samples

Abs(x) == IF x < 0 THEN -x ELSE x

\* checkLimits(port, status): the reasons of the handleViolation calls it makes, in
\* the order of its six tests
ViolationsOf(port, st) ==
  LET lim == Limits(port)
  IN (IF st.currentPosition < lim.minDegrees THEN <<"Position below minimum limit">> ELSE <<>>)
     \o (IF st.currentPosition > lim.maxDegrees THEN <<"Position above maximum limit">> ELSE <<>>)
     \o (IF Abs(st.speed) > lim.maxSpeed THEN <<"Speed exceeds maximum limit">> ELSE <<>>)
     \o (IF st.current > lim.maxCurrent THEN <<"Current draw too high">> ELSE <<>>)
     \o (IF st.temperature > lim.maxTemperature THEN <<"Temperature too high">> ELSE <<>>)
     \o (IF st.load > lim.maxMotorLoad THEN <<"Motor load too high">> ELSE <<>>)

\* a handleViolation without the re-entrancy guard
StartsStop_Unguarded(requested) == TRUE

\* handleViolation's guard: does a call made with the flag at `requested` start an
\* emergency stop?
StartsStop(requested) == ~requested

\* the flag after a handleViolation call
GuardAfter(requested) == TRUE

\* emergencyStop(): stopMonitoring() runs first
MonitoringAfterStop(m) == FALSE

\* emergencyStop() of the controller: the ports whose motor gets brake()
BrakedByMonitor == PortSet

NoCheck == [port |-> "none", sample |-> "none", guard |-> FALSE, recent |-> FALSE,
            calls |-> 0, stops |-> 0, errors |-> 0]

\* the interval callback with the hub gone: one notifyViolation(..., 'error')
DisconnectNotice == [NoCheck EXCEPT !.port = "hub", !.errors = 1]

\* the interval callback with the hub gone and no stopMonitoring()
MonitoringAfterDisconnect_Kept(m) == m

\* the interval callback with the hub gone: stopMonitoring() clears the interval
MonitoringAfterDisconnect(m) == FALSE

SafetyInit ==
  /\ hubConnected = TRUE
  /\ monitoring = FALSE
  /\ wanted = FALSE
  /\ stopRequested = FALSE
  /\ ticks = [k \in Slots |-> 0]
  /\ estopPhase = "idle"
  /\ cooldown = 0
  /\ sinceStop = -1
  /\ lastCheck = NoCheck

\* startMonitoring(): returns early when the interval exists
StartMonitoring ==
  /\ ~monitoring
  /\ monitoring' = TRUE
  /\ wanted' = TRUE
  /\ UNCHANGED <<hubConnected, stopRequested, ticks, estopPhase,
                 cooldown, sinceStop>>
  /\ lastCheck' = NoCheck
  /\ estopLog' = NoStop
  /\ UNCHANGED <<issued, evars, ovars>>
  /\ UNCHANGED qvars

\* stopMonitoring(), called by the owner of the controller
StopMonitoring ==
  /\ monitoring \/ wanted
  /\ monitoring' = FALSE
  /\ wanted' = FALSE
  /\ UNCHANGED <<hubConnected, stopRequested, ticks, estopPhase,
                 cooldown, sinceStop>>
  /\ lastCheck' = NoCheck
  /\ estopLog' = NoStop
  /\ UNCHANGED <<issued, evars, ovars>>
  /\ UNCHANGED qvars

\* the hub drops its connection
Disconnect ==
  /\ hubConnected
  /\ hubConnected' = FALSE
  /\ UNCHANGED <<monitoring, wanted, stopRequested, ticks, estopPhase,
                 cooldown, sinceStop>>
  /\ lastCheck' = NoCheck
  /\ estopLog' = NoStop
  /\ UNCHANGED <<issued, evars, ovars>>
  /\ UNCHANGED qvars

\* one poll period passes: the timers that are due run.  The setTimeout of
\* handleViolation frees the guard when it expires.
TimePasses ==
  /\ cooldown' = IF cooldown > 0 THEN cooldown - 1 ELSE 0
  /\ sinceStop' = IF sinceStop < 0 THEN sinceStop
                  ELSE IF sinceStop >= CooldownTicks THEN CooldownTicks
                  ELSE sinceStop + 1

GuardAfterTimers == IF cooldown = 1 THEN FALSE ELSE stopRequested

\* a poll period passes while no interval is set
AdvanceIdle ==
  /\ ~monitoring
  /\ cooldown > 0 \/ (sinceStop >= 0 /\ sinceStop < CooldownTicks)
  /\ TimePasses
  /\ stopRequested' = GuardAfterTimers
  /\ UNCHANGED <<hubConnected, monitoring, wanted, ticks, estopPhase>>
  /\ lastCheck' = NoCheck
  /\ estopLog' = NoStop
  /\ UNCHANGED <<issued, evars, ovars>>
  /\ UNCHANGED qvars

\* the interval callback finds the hub connected and suspends in getMotorStatus("A")
PollTick ==
  /\ monitoring /\ hubConnected
  /\ \E k \in Slots :
       /\ ticks[k] = 0
       /\ \A j \in Slots : j < k => ticks[j] # 0
       /\ ticks' = [ticks EXCEPT ![k] = 1]
  /\ TimePasses
  /\ stopRequested' = GuardAfterTimers
  /\ UNCHANGED <<hubConnected, monitoring, wanted, estopPhase>>
  /\ lastCheck' = NoCheck
  /\ estopLog' = NoStop
  /\ UNCHANGED <<issued, evars, ovars>>
  /\ UNCHANGED qvars

\* the interval callback finds the hub disconnected: stopMonitoring(), one notice
PollDisconnected ==
  /\ monitoring /\ ~hubConnected
  /\ monitoring' = MonitoringAfterDisconnect(monitoring)
  /\ wanted' = FALSE
  /\ TimePasses
  /\ stopRequested' = GuardAfterTimers
  /\ UNCHANGED <<hubConnected, ticks, estopPhase>>
  /\ lastCheck' = DisconnectNotice
  /\ estopLog' = NoStop
  /\ UNCHANGED <<issued, evars, ovars>>
  /\ UNCHANGED qvars

NextPort(k) == IF ticks[k] = Len(Ports) THEN 0 ELSE ticks[k] + 1

\* getMotorStatus(port) returns null (no motor at the port, or a read threw): the
\* loop of the callback goes on to the next port
StatusNull ==
  /\ \E k \in Slots :
       /\ ticks[k] # 0
       /\ ticks' = [ticks EXCEPT ![k] = NextPort(k)]
  /\ UNCHANGED <<hubConnected, monitoring, wanted, stopRequested,
                 estopPhase, cooldown, sinceStop>>
  /\ lastCheck' = NoCheck
  /\ estopLog' = NoStop
  /\ UNCHANGED <<issued, evars, ovars>>
  /\ UNCHANGED qvars

\* getMotorStatus(port) returns a sample: checkLimits(port, status) runs, each
\* failed test calls handleViolation, and the first call that finds the guard free
\* sets it and runs emergencyStop() up to its await (stopMonitoring(), the brakes)
StatusRead ==
  /\ \E k \in Slots, id \in SampleIds :
       /\ ticks[k] # 0
       /\ LET port  == Ports[ticks[k]]
              calls == Len(ViolationsOf(port, Samples[id]))
              stop  == calls > 0 /\ StartsStop(stopRequested)
          IN /\ ticks' = [ticks EXCEPT ![k] = NextPort(k)]
             /\ stopRequested' = IF calls > 0 THEN GuardAfter(stopRequested)
                                 ELSE stopRequested
             /\ monitoring' = IF stop THEN MonitoringAfterStop(monitoring) ELSE monitoring
             /\ estopPhase' = IF stop THEN "braking" ELSE estopPhase
             /\ sinceStop' = IF stop THEN 0 ELSE sinceStop
             /\ lastCheck' = [port |-> port, sample |-> id, guard |-> stopRequested,
                              recent |-> sinceStop >= 0 /\ sinceStop < CooldownTicks,
                              calls |-> calls, stops |-> IF stop THEN 1 ELSE 0,
                              errors |-> calls]
             /\ estopLog' = IF stop
                               THEN [by |-> "monitor", pending |-> Len(queue),
                                     braked |-> BrakedByMonitor]
                               ELSE NoStop
  /\ UNCHANGED <<issued, evars, ovars>>
  /\ UNCHANGED <<hubConnected, wanted, cooldown>>
  /\ UNCHANGED qvars

\* the brakes of emergencyStop() have settled: handleViolation resumes and arms the
\* setTimeout that frees the guard
StopSettled ==
  /\ estopPhase = "braking"
  /\ estopPhase' = "idle"
  /\ cooldown' = CooldownTicks
  /\ UNCHANGED <<hubConnected, monitoring, wanted, stopRequested, ticks,
                 sinceStop>>
  /\ lastCheck' = NoCheck
  /\ estopLog' = NoStop
  /\ UNCHANGED <<issued, evars, ovars>>
  /\ UNCHANGED qvars

NextSafety ==
  \/ StartMonitoring \/ StopMonitoring \/ Disconnect
  \/ AdvanceIdle \/ PollTick \/ PollDisconnected
  \/ StatusNull \/ StatusRead \/ StopSettled

(***************************************************************************)
(* PathProcessor.optimizePlotterMoves and PathExecutor                     *)
(***************************************************************************)
NoZ == 99   \* stands for a move without z (z === undefined)

Mv(t, x, y, z) == [type |-> t, x |-> x, y |-> y, z |-> z]

\* the sequences handed to the executor (the inputs of the model), coordinates in mm
SequenceInputs ==
  { <<>>,
    << Mv("move", 2, 0, NoZ) >>,
    << Mv("move", 2, 0, 0), Mv("draw", 2, 2, -45) >>,
    << Mv("move", 1, 1, 0), Mv("draw", 3, 1, -45), Mv("draw", 3, 3, NoZ),
       Mv("move", 0, 0, 0) >>,
    << Mv("draw", 1, 0, -45), Mv("move", 1, 2, NoZ), Mv("draw", 0, 2, NoZ) >>,
    << Mv("draw", 0, 5, -45), Mv("draw", 3, 5, NoZ) >>,
    << Mv("move", 1, 3, 0) >>,
    << Mv("move", 2, 2, -45), Mv("draw", 2, 2, NoZ) >> }

\* DEFAULT_CALIBRATION.degreesPerMM
DegreesPerMMX == 10
DegreesPerMMY == 10

\* mm delta + degrees per mm
AxisDegrees_Sum(delta, perMM) == delta + perMM

\* the rotation of one axis for a delta in mm (executeMove and validatePath alike)
AxisDegrees(delta, perMM) == delta * perMM

\* the reduce of optimizePlotterMoves: a draw that follows a draw overwrites the
\* end point of the previous entry
RECURSIVE OptimizeFrom(_, _, _)
OptimizeFrom(acc, moves, i) ==
  IF i > Len(moves) THEN acc
  ELSE LET move == moves[i]
       IN IF i = 1 THEN OptimizeFrom(<<move>>, moves, i + 1)
          ELSE LET prev == acc[Len(acc)]
               IN IF prev.type = move.type /\ move.type = "draw"
                    THEN OptimizeFrom(
                           [acc EXCEPT ![Len(acc)] = [prev EXCEPT !.x = move.x, !.y = move.y]],
                           moves, i + 1)
                    ELSE OptimizeFrom(Append(acc, move), moves, i + 1)

\* a merge pass that does not compare the element that follows a merge
RECURSIVE OptimizeFrom_SkipAfterMerge(_, _, _)
OptimizeFrom_SkipAfterMerge(acc, moves, i) ==
  IF i > Len(moves) THEN acc
  ELSE LET move == moves[i]
       IN IF i = 1 THEN OptimizeFrom_SkipAfterMerge(<<move>>, moves, i + 1)
          ELSE LET prev == acc[Len(acc)]
                   merged == [acc EXCEPT ![Len(acc)] =
                                [prev EXCEPT !.x = move.x, !.y = move.y]]
               IN IF prev.type = move.type /\ move.type = "draw"
                    THEN IF i + 1 > Len(moves) THEN merged
                         ELSE OptimizeFrom_SkipAfterMerge(
                                Append(merged, moves[i + 1]), moves, i + 2)
                    ELSE OptimizeFrom_SkipAfterMerge(Append(acc, move), moves, i + 1)

optimizePlotterMoves_SkipAfterMerge(moves) ==
  OptimizeFrom_SkipAfterMerge(<<>>, moves, 1)

optimizePlotterMoves(moves) == OptimizeFrom(<<>>, moves, 1)

\* optimizePlotterMoves(moves, simulationMode): the flag returns the list as it is
Optimize(moves, simulationMode) ==
  IF simulationMode THEN moves ELSE optimizePlotterMoves(moves)

\* the last index of the run of draws that starts at k
RECURSIVE RunEnd(_, _)
RunEnd(moves, k) ==
  IF k < Len(moves) /\ moves[k + 1].type = "draw" THEN RunEnd(moves, k + 1) ELSE k

\* the argument array after the call: the accumulator holds the argument's own
\* objects, so prev.x = move.x; prev.y = move.y writes to the first draw of a run
ArgumentAfter(moves, simulationMode) ==
  IF simulationMode THEN moves
  ELSE [k \in DOMAIN moves |->
          IF moves[k].type = "draw" /\ (k = 1 \/ moves[k - 1].type # "draw")
            THEN [moves[k] EXCEPT !.x = moves[RunEnd(moves, k)].x,
                                  !.y = moves[RunEnd(moves, k)].y]
            ELSE moves[k]]

(***************************************************************************)
(* MovementValidator                                                       *)
(***************************************************************************)
\* largest coordinate tried with the small validators
GridMax == 7

Zone(x1, y1, x2, y2) == [x1 |-> x1, y1 |-> y1, x2 |-> x2, y2 |-> y2]

\* constructor arguments: MOVEMENT_BOUNDS with the calibration of the page, and
\* smaller papers with a zone on the origin, zones inside the paper, travel bounds
\* wider than the paper, and the simulation flag
Config(id) ==
  CASE id = "default" ->
         [minX |-> 0, maxX |-> 148, minY |-> 0, maxY |-> 210,
          paperWidth |-> 148, paperHeight |-> 210,
          dangerZones |-> << Zone(-10, -10, 10, 10) >>,
          calX |-> DegreesPerMMX, calY |-> DegreesPerMMY, simulationMode |-> FALSE]
    [] id = "corner" ->
         [minX |-> 0, maxX |-> 6, minY |-> 0, maxY |-> 8,
          paperWidth |-> 6, paperHeight |-> 8,
          dangerZones |-> << Zone(-1, -1, 1, 1) >>,
          calX |-> 60, calY |-> 60, simulationMode |-> FALSE]
    [] id = "inner" ->
         [minX |-> -1, maxX |-> 7, minY |-> 0, maxY |-> 8,
          paperWidth |-> 6, paperHeight |-> 8,
          dangerZones |-> << Zone(3, 3, 4, 5), Zone(0, 7, 1, 8) >>,
          calX |-> 60, calY |-> 45, simulationMode |-> FALSE]
    [] id = "simulated" ->
         [minX |-> 0, maxX |-> 6, minY |-> 0, maxY |-> 8,
          paperWidth |-> 6, paperHeight |-> 8,
          dangerZones |-> << Zone(-1, -1, 1, 1) >>,
          calX |-> 60, calY |-> 60, simulationMode |-> TRUE]

ConfigIds == {"default", "corner", "inner", "simulated"}

\* the coordinates tried with a validator
Coords(id) ==
  IF id = "default" THEN {-20, 0, 5, 10, 11, 20, 30, 36, 37, 148, 149, 210, 211}
  ELSE (-1)..GridMax

Valid == [valid |-> TRUE, reason |-> "none"]
Invalid(reason) == [valid |-> FALSE, reason |-> reason]

\* a zone test that leaves the boundary out
isInZone_Open(x, y, zone) ==
  x > zone.x1 /\ x < zone.x2 /\ y > zone.y1 /\ y < zone.y2

isInZone(x, y, zone) ==
  x >= zone.x1 /\ x <= zone.x2 /\ y >= zone.y1 /\ y <= zone.y2

validatePosition(cfg, x, y) ==
  IF cfg.simulationMode THEN Valid
  ELSE IF x < cfg.minX \/ x > cfg.maxX THEN Invalid("x outside bounds")
  ELSE IF y < cfg.minY \/ y > cfg.maxY THEN Invalid("y outside bounds")
  ELSE IF x < 0 \/ x > cfg.paperWidth \/ y < 0 \/ y > cfg.paperHeight
    THEN Invalid("outside paper bounds")
  ELSE IF \E k \in DOMAIN cfg.dangerZones : isInZone(x, y, cfg.dangerZones[k])
    THEN Invalid("in danger zone")
  ELSE Valid

\* 0 <= n / d <= 1 for the quotient of two integers, d # 0
InUnit(n, d) == IF d > 0 THEN 0 <= n /\ n <= d ELSE d <= n /\ n <= 0

\* an intersection test that leaves out the end points of the zone's edge
doLinesIntersect_OpenEdge(x1, y1, x2, y2, x3, y3, x4, y4) ==
  LET denominator == (x2 - x1) * (y4 - y3) - (y2 - y1) * (x4 - x3)
      na == (x4 - x3) * (y1 - y3) - (y4 - y3) * (x1 - x3)
      nb == (x2 - x1) * (y1 - y3) - (y2 - y1) * (x1 - x3)
  IN IF denominator = 0 THEN FALSE
     ELSE InUnit(na, denominator) /\ InUnit(nb, denominator)
          /\ nb # 0 /\ nb # denominator

\* ua = na / denominator and ub = nb / denominator, both tested against [0, 1]
doLinesIntersect(x1, y1, x2, y2, x3, y3, x4, y4) ==
  LET denominator == (x2 - x1) * (y4 - y3) - (y2 - y1) * (x4 - x3)
      na == (x4 - x3) * (y1 - y3) - (y4 - y3) * (x1 - x3)
      nb == (x2 - x1) * (y1 - y3) - (y2 - y1) * (x1 - x3)
  IN IF denominator = 0 THEN FALSE
     ELSE InUnit(na, denominator) /\ InUnit(nb, denominator)

\* the four edges of a zone, in the order of the lines array
ZoneEdges(zone) ==
  << << zone.x1, zone.y1, zone.x2, zone.y1 >>,
     << zone.x2, zone.y1, zone.x2, zone.y2 >>,
     << zone.x1, zone.y2, zone.x2, zone.y2 >>,
     << zone.x1, zone.y1, zone.x1, zone.y2 >> >>

doesLineIntersectZone(x1, y1, x2, y2, zone) ==
  \E k \in 1..4 :
    LET line == ZoneEdges(zone)[k]
    IN doLinesIntersect(x1, y1, x2, y2, line[1], line[2], line[3], line[4])

MAX_DEGREES_PER_MOVE == 360

LargerOf(a, b) == IF a > b THEN a ELSE b

\* Math.sqrt(dx * dx + dy * dy) > limit, for integers
LongerThan(dx, dy, limit) == dx * dx + dy * dy > limit * limit

\* the checks of validatePath after the two end points
PathChecks(cfg, startX, startY, endX, endY) ==
  LET dx == endX - startX
      dy == endY - startY
  IN IF LongerThan(dx, dy, LargerOf(cfg.paperWidth, cfg.paperHeight))
       THEN Invalid("path too long")
     ELSE IF \E k \in DOMAIN cfg.dangerZones :
               doesLineIntersectZone(startX, startY, endX, endY, cfg.dangerZones[k])
       THEN Invalid("crosses danger zone")
     ELSE IF Abs(AxisDegrees(dx, cfg.calX)) > MAX_DEGREES_PER_MOVE
               \/ Abs(AxisDegrees(dy, cfg.calY)) > MAX_DEGREES_PER_MOVE
       THEN Invalid("excessive rotation")
     ELSE Valid

\* a validatePath that does not look at the end point
validatePath_NoEndCheck(cfg, startX, startY, endX, endY) ==
  IF cfg.simulationMode THEN Valid
  ELSE IF ~validatePosition(cfg, startX, startY).valid
    THEN validatePosition(cfg, startX, startY)
  ELSE PathChecks(cfg, startX, startY, endX, endY)

validatePath(cfg, startX, startY, endX, endY) ==
  IF cfg.simulationMode THEN Valid
  ELSE IF ~validatePosition(cfg, startX, startY).valid
    THEN validatePosition(cfg, startX, startY)
  ELSE IF ~validatePosition(cfg, endX, endY).valid
    THEN validatePosition(cfg, endX, endY)
  ELSE PathChecks(cfg, startX, startY, endX, endY)

\* longest move list tried with validateSequence
MaxSeqLen == 2

\* the coordinates of the moves tried with validateSequence
SeqCoords(id) ==
  IF id = "default" THEN {0, 20, 30, 148, 149}
  ELSE {c \in Coords(id) : c % 2 = 1}

MinOf(S) == CHOOSE m \in S : \A n \in S : m <= n
MaxOf(S) == CHOOSE m \in S : \A n \in S : m >= n

\* PathProcessor.calculateBoundingBox(moves), which fills sequence.boundingBox
calculateBoundingBox(moves) ==
  IF Len(moves) = 0 THEN [minX |-> 0, maxX |-> 0, minY |-> 0, maxY |-> 0]
  ELSE [minX |-> MinOf({moves[k].x : k \in DOMAIN moves}),
        maxX |-> MaxOf({moves[k].x : k \in DOMAIN moves}),
        minY |-> MinOf({moves[k].y : k \in DOMAIN moves}),
        maxY |-> MaxOf({moves[k].y : k \in DOMAIN moves})]

\* the move lists of at most n moves over a set of coordinates
RECURSIVE MoveLists(_, _)
MoveLists(C, n) ==
  IF n = 0 THEN { <<>> }
  ELSE LET shorter == MoveLists(C, n - 1)
       IN shorter \cup
          { Append(ms, Mv("draw", x, y, NoZ)) : ms \in shorter, x \in C, y \in C }

\* a walk that validates every hop from the origin
HopStart_Origin(move) == <<0, 0>>

\* currentX = move.x; currentY = move.y
HopStart(move) == <<move.x, move.y>>

\* the for loop of validateSequence from move i on, the walk standing at cur
RECURSIVE ValidateMoves(_, _, _, _)
ValidateMoves(cfg, moves, i, cur) ==
  IF i > Len(moves) THEN Valid
  ELSE LET pathValid == validatePath(cfg, cur[1], cur[2], moves[i].x, moves[i].y)
       IN IF ~pathValid.valid
            THEN [valid |-> FALSE, reason |-> "invalid move",
                  at |-> <<moves[i].x, moves[i].y>>, why |-> pathValid.reason]
            ELSE ValidateMoves(cfg, moves, i + 1, HopStart(moves[i]))

validateSequence(cfg, sequence) ==
  IF cfg.simulationMode THEN Valid
  ELSE IF \/ sequence.boundingBox.maxX > cfg.paperWidth
          \/ sequence.boundingBox.maxY > cfg.paperHeight
          \/ sequence.boundingBox.minX < 0
          \/ sequence.boundingBox.minY < 0
    THEN Invalid("exceeds paper bounds")
  ELSE ValidateMoves(cfg, sequence.moves, 1, <<0, 0>>)

\* the validator of the executor: the constructor's validatorOverride, built for a
\* 7 by 7 paper with one danger zone away from the origin, with the executor's
\* calibration and simulation flag.  (The validator the constructor builds from
\* MOVEMENT_BOUNDS when no override is given has the origin in its danger zone.)
ExecutorValidator(simulationMode) ==
  [minX |-> 0, maxX |-> 7, minY |-> 0, maxY |-> 7,
   paperWidth |-> 7, paperHeight |-> 7,
   dangerZones |-> << Zone(1, 3, 2, 4) >>,
   calX |-> DegreesPerMMX, calY |-> DegreesPerMMY, simulationMode |-> simulationMode]

\* this.validator.validateSequence(sequence).valid, for a sequence whose
\* boundingBox is the box of its moves
Accepted(moves, simulationMode) ==
  validateSequence(ExecutorValidator(simulationMode),
                   [moves |-> moves, boundingBox |-> calculateBoundingBox(moves)]).valid

\* executeMove: time = distance / baseSpeed with distance = sqrt(dx^2 + dy^2) and
\* baseSpeed 50 or 30 is zero exactly when the move has no length
TimeIsZero(deltaX, deltaY) == deltaX * deltaX + deltaY * deltaY = 0

\* speedX = |degreesX / time| and speedY = |degreesY / time| are numbers unless they
\* are 0 / 0: with time = 0 both degrees are 0 as well, and the quotient is NaN
SpeedsDefined(deltaX, deltaY) == ~TimeIsZero(deltaX, deltaY)

\* how the executor hands a rotation to the motor: this.plotter.rotateByDegrees,
\* which calls motor.rotateByDegrees itself
ExecutorQueued == FALSE

Rotation(port, deg, move, queued) ==
  [port |-> port, deg |-> deg, move |-> move, queued |-> queued]

ExecInit ==
  /\ exSim = FALSE
  /\ exPc = "idle"
  /\ exMoves = <<>>
  /\ exI = 0
  /\ exPos = <<0, 0>>
  /\ rotB = "none"
  /\ rotA = "none"
  /\ rotC = "none"
  /\ exFailedAt = 0
  /\ exProgress = <<>>
  /\ issued = <<>>

ExecFrame == /\ UNCHANGED <<qvars, svars, ovars, exSim>>
             /\ estopLog' = NoStop

\* the page builds a new PathExecutor (its effect runs again when simulationMode
\* or the calibration changes)
NewExecutor ==
  /\ exPc \in {"idle", "resolved", "rejected"}
  /\ exSim' \in BOOLEAN
  /\ exPc' = "idle"
  /\ exMoves' = <<>>
  /\ exI' = 0
  /\ exPos' = <<0, 0>>
  /\ rotB' = "none" /\ rotA' = "none" /\ rotC' = "none"
  /\ exFailedAt' = 0
  /\ exProgress' = <<>>
  /\ issued' = <<>>
  /\ estopLog' = NoStop
  /\ UNCHANGED <<qvars, svars, ovars>>

\* onProgress((i + 1) / totalMoves * 100) as an exact fraction
Progress_ZeroBased(completed, total) == [num |-> (completed - 1) * 100, den |-> total]

Progress(completed, total) == [num |-> completed * 100, den |-> total]

\* an executeMove that starts the pen and both axes in one Promise.all
BeginMove_PenWithAxes(ms, i, log) ==
  /\ exI' = i
  /\ IF exSim
       THEN /\ exPc' = "sim"
            /\ issued' = log
            /\ rotB' = "none" /\ rotA' = "none" /\ rotC' = "none"
       ELSE /\ exPc' = "axes"
            /\ issued' = log \o
                 (IF ms[i].z # NoZ
                    THEN << Rotation("C", ms[i].z, i, ExecutorQueued) >> ELSE << >>) \o
                 << Rotation("B", AxisDegrees(ms[i].x - exPos[1], DegreesPerMMX), i, ExecutorQueued),
                    Rotation("A", AxisDegrees(ms[i].y - exPos[2], DegreesPerMMY), i, ExecutorQueued) >>
            /\ rotB' = "inflight" /\ rotA' = "inflight"
            /\ rotC' = IF ms[i].z # NoZ THEN "inflight" ELSE "none"

\* executeMove(move) up to its first await, for move number i of the list ms; log
\* is the rotation log so far
BeginMove(ms, i, log) ==
  /\ exI' = i
  /\ IF exSim
       THEN /\ exPc' = "sim"
            /\ issued' = log
            /\ rotB' = "none" /\ rotA' = "none" /\ rotC' = "none"
       ELSE IF ms[i].z # NoZ
         THEN /\ exPc' = "pen"
              /\ issued' = Append(log, Rotation("C", ms[i].z, i, ExecutorQueued))
              /\ rotB' = "none" /\ rotA' = "none" /\ rotC' = "inflight"
         ELSE /\ exPc' = "axes"
              /\ issued' = log \o
                   << Rotation("B", AxisDegrees(ms[i].x - exPos[1], DegreesPerMMX), i, ExecutorQueued),
                      Rotation("A", AxisDegrees(ms[i].y - exPos[2], DegreesPerMMY), i, ExecutorQueued) >>
              /\ rotB' = "inflight" /\ rotA' = "inflight" /\ rotC' = "none"

\* the code after the for loop of executeSequence: the closing pen-up, in hardware
\* mode only
AfterLastMove(log) ==
  /\ rotB' = "none" /\ rotA' = "none"
  /\ rotC' = IF exSim THEN "none" ELSE "inflight"
  /\ IF exSim
       THEN /\ exPc' = "resolved"
            /\ issued' = log
       ELSE /\ exPc' = "penup"
            /\ issued' = Append(log, Rotation("C", 0, 0, ExecutorQueued))

\* the loop of executeSequence after move i has completed
NextMove(ms, i, log) ==
  /\ exProgress' = Append(exProgress, Progress(i, Len(ms)))
  /\ IF i < Len(ms) THEN BeginMove(ms, i + 1, log)
     ELSE /\ exI' = i
          /\ AfterLastMove(log)

\* a step of executeSequence throws: the catch logs and rethrows
Rethrow(at) ==
  /\ exPc' = "rejected"
  /\ exFailedAt' = at
  /\ UNCHANGED <<exMoves, exI, exPos, issued, exProgress>>

\* executeSequence(sequence) is called and the validator rejects the sequence
ExecuteInvalid ==
  /\ exPc \in {"idle", "resolved", "rejected"}
  /\ \E seq \in SequenceInputs : ~Accepted(seq, exSim)
  /\ exMoves' = <<>>
  /\ exI' = 0
  /\ exFailedAt' = 0
  /\ exProgress' = <<>>
  /\ exPc' = "rejected"
  /\ issued' = <<>>
  /\ rotB' = "none" /\ rotA' = "none" /\ rotC' = "none"
  /\ UNCHANGED exPos
  /\ ExecFrame

\* executeSequence(sequence) is called and the validator accepts: optimize, then
\* the first move (or, for an empty list, the code after the loop)
ExecuteSequence ==
  /\ exPc \in {"idle", "resolved", "rejected"}
  /\ \E seq \in SequenceInputs :
       LET ms == optimizePlotterMoves(seq)
       IN /\ Accepted(seq, exSim)
          /\ exMoves' = ms
          /\ exFailedAt' = 0
          /\ exProgress' = <<>>
          /\ IF Len(ms) = 0
               THEN exI' = 0 /\ AfterLastMove(<<>>)
               ELSE BeginMove(ms, 1, <<>>)
  /\ UNCHANGED exPos
  /\ ExecFrame

\* the pen rotation of the current move resolves: both axis rotations are issued
PenDone ==
  /\ exPc = "pen"
  /\ exPc' = "axes"
  /\ issued' = issued \o
       << Rotation("B", AxisDegrees(exMoves[exI].x - exPos[1], DegreesPerMMX), exI, ExecutorQueued),
          Rotation("A", AxisDegrees(exMoves[exI].y - exPos[2], DegreesPerMMY), exI, ExecutorQueued) >>
  /\ rotB' = "inflight" /\ rotA' = "inflight" /\ rotC' = "ok"
  /\ UNCHANGED <<exMoves, exI, exPos, exFailedAt, exProgress>>
  /\ ExecFrame

\* the pen rotation of the current move rejects
PenFails ==
  /\ exPc = "pen"
  /\ Rethrow(exI)
  /\ UNCHANGED <<rotB, rotA>> /\ rotC' = "fail"
  /\ ExecFrame

\* one of the two axis rotations resolves; when both have, the tracked position is
\* updated and the loop goes on
AxisDone ==
  /\ exPc = "axes"
  /\ \E port \in {"A", "B"} :
       /\ (IF port = "B" THEN rotB ELSE rotA) = "inflight"
       /\ LET b == IF port = "B" THEN "ok" ELSE rotB
              a == IF port = "A" THEN "ok" ELSE rotA
          IN IF b = "ok" /\ a = "ok"
               THEN /\ exPos' = <<exMoves[exI].x, exMoves[exI].y>>
                    /\ NextMove(exMoves, exI, issued)
                    /\ UNCHANGED <<exMoves, exFailedAt>>
               ELSE /\ rotB' = b /\ rotA' = a /\ UNCHANGED rotC
                    /\ UNCHANGED <<exPc, exMoves, exI, exPos, exFailedAt, issued,
                                   exProgress>>
  /\ ExecFrame

\* one of the two axis rotations rejects: Promise.all rejects at once
AxisFails ==
  /\ exPc = "axes"
  /\ \E port \in {"A", "B"} :
       /\ (IF port = "B" THEN rotB ELSE rotA) = "inflight"
       /\ rotB' = IF port = "B" THEN "fail" ELSE rotB
       /\ rotA' = IF port = "A" THEN "fail" ELSE rotA
  /\ UNCHANGED rotC
  /\ Rethrow(exI)
  /\ ExecFrame

\* simulateMove: the 100 ms timer fires
SimDone ==
  /\ exPc = "sim"
  /\ exPos' = <<exMoves[exI].x, exMoves[exI].y>>
  /\ NextMove(exMoves, exI, issued)
  /\ UNCHANGED <<exMoves, exFailedAt>>
  /\ ExecFrame

\* the closing pen-up resolves
PenUpDone ==
  /\ exPc = "penup"
  /\ exPc' = "resolved"
  /\ UNCHANGED <<exMoves, exI, exPos, rotB, rotA, exFailedAt, issued, exProgress>>
  /\ rotC' = "ok"
  /\ ExecFrame

\* the closing pen-up rejects
PenUpFails ==
  /\ exPc = "penup"
  /\ Rethrow(0)
  /\ UNCHANGED <<rotB, rotA>> /\ rotC' = "fail"
  /\ ExecFrame

NextExec ==
  \/ NewExecutor
  \/ ExecuteInvalid \/ ExecuteSequence
  \/ PenDone \/ PenFails \/ AxisDone \/ AxisFails \/ SimDone
  \/ PenUpDone \/ PenUpFails

(***************************************************************************)
(* Orchestration layer (app/page.tsx)                                      *)
(***************************************************************************)
\* emergencyStop() of the page: stopMotor(port) for every key of motorStates
BrakedByPage == PortSet

\* emergencyStop() of the page up to its await: commandQueue.clear(), then the
\* brakes; `by` is who called it
StopLog(by, q) == [by |-> by, pending |-> Len(q.queue), braked |-> BrakedByPage]

PageEmergencyStop(by) ==
  /\ SetQueue(QClear(QState))
  /\ estopLog' = StopLog(by, QClear(QState))

\* the operator clicks the stop button or presses Escape
OperatorStop ==
  /\ PageEmergencyStop("operator")
  /\ UNCHANGED <<svars, issued, evars, ovars>>

(***************************************************************************)
(* executeCommand (app/page.tsx): a queued command with a timeout          *)
(***************************************************************************)
COMMAND_TIMEOUT == 5000

\* the clock of the model advances in steps of COMMAND_TIMEOUT / TimeoutTicks
TimeoutTicks == 2

TimerInit ==
  /\ timer = [i \in Ops |-> -1]
  /\ body = [i \in Ops |-> "none"]
  /\ awaits = [i \in Ops |-> 0]

\* the elapsed time a timer value stands for, in ms
ElapsedMs(t) == (t * COMMAND_TIMEOUT) \div TimeoutTicks

\* setTimeout(..., COMMAND_TIMEOUT) fires
TimerDue(t) == t >= 0 /\ ElapsedMs(t) >= COMMAND_TIMEOUT

\* the wrappers the queue call that led from opState to q.opState has started: each
\* arms its timer and calls command()
Armed(q, tm) ==
  [i \in Ops |-> IF q.opState[i] = "running" /\ opState[i] # "running" THEN 0 ELSE tm[i]]

Called(q, bd) ==
  [i \in Ops |-> IF q.opState[i] = "running" /\ opState[i] # "running"
                   THEN "running" ELSE bd[i]]

TimedFrame ==
  /\ estopLog' = NoStop
  /\ UNCHANGED <<svars, issued, evars, rest>>

\* executeCommand(command): it throws before anything is queued while
\* isConnectionStable() is false, else commandQueue.add(wrapper)
ExecuteCommand ==
  /\ submitted < MaxOps
  /\ \E stable \in BOOLEAN :
       IF stable
         THEN LET q == QAdd(QState)
              IN /\ SetQueue(q)
                 /\ timer' = Armed(q, timer)
                 /\ body' = Called(q, body)
                 /\ UNCHANGED awaits
         ELSE UNCHANGED <<qvars, tvars>>
  /\ TimedFrame

\* the wrapper of operation i settles with `result`: the queue's execute() settles
\* the handle and processQueue() goes on; bd is what became of command()
WrapperSettles(i, result, bd) ==
  LET q == QComplete(QState, i, result)
  IN /\ SetQueue(q)
     /\ timer' = Armed(q, [timer EXCEPT ![i] = -1])
     /\ body' = Called(q, [body EXCEPT ![i] = bd])
     /\ UNCHANGED awaits

\* command() resolves before the timer fires: clearTimeout, resolve()
CommandResolves ==
  /\ \E i \in Ops :
       /\ body[i] = "running" /\ timer[i] >= 0 /\ ~TimerDue(timer[i])
       /\ WrapperSettles(i, "ok", "settled")
  /\ TimedFrame

\* command() rejects before the timer fires: clearTimeout, reject(error)
CommandRejects ==
  /\ \E i \in Ops :
       /\ body[i] = "running" /\ timer[i] >= 0 /\ ~TimerDue(timer[i])
       /\ WrapperSettles(i, "fail", "settled")
  /\ TimedFrame

\* the timer of operation i fires while command() is still running:
\* reject(new Error('Command timeout')); command() itself is not interrupted
CommandTimeout ==
  /\ \E i \in Ops :
       /\ body[i] \in {"running", "awaiting"} /\ TimerDue(timer[i])
       /\ WrapperSettles(i, "timeout", body[i])
  /\ TimedFrame

\* a command() whose wrapper has timed out settles: clearTimeout and resolve() or
\* reject() on the settled wrapper do nothing
LateSettle ==
  /\ \E i \in Ops :
       /\ body[i] = "running" /\ timer[i] = -1
       /\ body' = [body EXCEPT ![i] = "settled"]
  /\ UNCHANGED <<qvars, timer, awaits>>
  /\ TimedFrame

\* time passes: possible only while no armed timer is due
ClockTick ==
  /\ \E i \in Ops : timer[i] >= 0
  /\ \A i \in Ops : ~TimerDue(timer[i])
  /\ timer' = [i \in Ops |-> IF timer[i] >= 0 THEN timer[i] + 1 ELSE timer[i]]
  /\ UNCHANGED <<qvars, body, awaits>>
  /\ TimedFrame

\* the page's emergencyStop() while commands are queued: the queue is cleared, the
\* wrapper in flight and its timer are not touched
StopWhileQueued ==
  /\ pendingCommands > 0 \/ isExecuting
  /\ PageEmergencyStop("operator")
  /\ UNCHANGED <<svars, issued, evars, ovars>>

\* handleLoadSequence in hardware mode: the loop submits the operation of the next
\* move through executeCommand and awaits it, so the operation of the move before
\* has settled
LoadMove ==
  /\ submitted < MaxOps
  /\ \A i \in Ops : (awaits[i] >= 0 /\ handle[i] # "none") =>
                        handle[i] \in {"resolved", "rejected"}
  /\ LET q == QAdd(QState)
     IN /\ SetQueue(q)
        /\ timer' = Armed(q, timer)
        /\ body' = Called(q, body)
        /\ UNCHANGED awaits
  /\ TimedFrame

\* the operation of a move, its pen step done, calls moveToPosition(move.x, move.y)
\* for a target that differs from the position and that validatePath of the
\* validator in movementValidator.current accepts: moveToPosition calls
\* executeCommand, which adds a second operation to the same queue, and awaits it.
\* (For a target that is not accepted, or equal to the position, command() returns:
\* CommandResolves.)
MoveToPosition ==
  /\ submitted < MaxOps
  /\ \E i \in Ops :
       /\ body[i] = "running" /\ awaits[i] = 0
       /\ LET q == QAdd(QState)
          IN /\ SetQueue(q)
             /\ timer' = Armed(q, timer)
             /\ body' = Called(q, [body EXCEPT ![i] = "awaiting"])
             /\ awaits' = [awaits EXCEPT ![i] = q.submitted, ![q.submitted] = -1]
  /\ TimedFrame

\* the handle of the nested operation has settled: moveToPosition returns or throws
\* in the operation that awaits it, and command() of that operation settles
AwaitedSettles ==
  /\ \E i \in Ops :
       /\ body[i] = "awaiting"
       /\ handle[awaits[i]] \in {"resolved", "rejected"}
       /\ IF timer[i] >= 0
            THEN WrapperSettles(i, IF handle[awaits[i]] = "resolved" THEN "ok" ELSE "fail",
                                "settled")
            ELSE /\ body' = [body EXCEPT ![i] = "settled"]
                 /\ UNCHANGED <<qvars, timer, awaits>>
  /\ TimedFrame

NextTimed ==
  \/ ExecuteCommand
  \/ CommandResolves \/ CommandRejects \/ CommandTimeout \/ LateSettle
  \/ ClockTick \/ StopWhileQueued

(***************************************************************************)
(* SafetyController.emergencyStop(): one brake per attached motor          *)
(***************************************************************************)
NoNotes == [failed |-> {}, activated |-> FALSE, stopFailed |-> FALSE]

BrakeInit ==
  /\ attached = PortSet
  /\ stopPc = "idle"
  /\ brake = [p \in PortSet |-> "none"]
  /\ notes = NoNotes

BrakeFrame ==
  /\ estopLog' = NoStop
  /\ UNCHANGED <<qvars, svars, issued, evars, tvars, mvars, pvars, lvars, gvars>>

\* one notification for the whole stop, whatever the number of failed brakes
FailureNotes_OnePerStop(failed) ==
  IF failed = {} THEN {} ELSE {CHOOSE p \in failed : TRUE}

\* the catch around motor.brake(): notifyViolation(`Failed to stop motor ${port}`)
\* once for each port whose brake failed
FailureNotes(failed) == failed

\* motors are plugged into or pulled from the hub between two stops
DeviceChange ==
  /\ stopPc \in {"idle", "done"}
  /\ \E a \in SUBSET PortSet : a # attached /\ attached' = a
  /\ stopPc' = "idle"
  /\ brake' = [p \in PortSet |-> "none"]
  /\ notes' = NoNotes
  /\ BrakeFrame

\* emergencyStop() up to its await: stopMonitoring(), then the map() callback runs
\* for A, B and C in turn, each up to its own await motor.brake()
BeginStop ==
  /\ stopPc \in {"idle", "done"}
  /\ monitoring' = FALSE
  /\ brake' = [p \in PortSet |-> IF p \in attached THEN "inflight" ELSE "absent"]
  /\ stopPc' = "braking"
  /\ notes' = NoNotes
  /\ UNCHANGED attached
  /\ estopLog' = NoStop
  /\ UNCHANGED <<hubConnected, wanted, stopRequested, ticks, estopPhase, cooldown,
                 sinceStop, lastCheck>>
  /\ UNCHANGED <<qvars, issued, evars, tvars, mvars, pvars, lvars, gvars>>

\* motor.brake() of one port resolves
BrakeDone ==
  /\ stopPc = "braking"
  /\ \E p \in PortSet :
       /\ brake[p] = "inflight"
       /\ brake' = [brake EXCEPT ![p] = "ok"]
  /\ UNCHANGED <<attached, stopPc, notes>>
  /\ BrakeFrame

\* motor.brake() of one port rejects: the callback's catch reports it and the
\* callback resolves
BrakeFails ==
  /\ stopPc = "braking"
  /\ \E p \in PortSet :
       /\ brake[p] = "inflight"
       /\ brake' = [brake EXCEPT ![p] = "fail"]
       /\ notes' = [notes EXCEPT
                      !.failed = FailureNotes({q \in PortSet : brake'[q] = "fail"})]
  /\ UNCHANGED <<attached, stopPc>>
  /\ BrakeFrame

\* every callback has resolved: Promise.all resolves, 'Emergency stop activated'
StopActivated ==
  /\ stopPc = "braking"
  /\ \A p \in PortSet : brake[p] # "inflight"
  /\ stopPc' = "done"
  /\ notes' = [notes EXCEPT !.activated = TRUE]
  /\ UNCHANGED <<attached, brake>>
  /\ BrakeFrame

NextBrake ==
  \/ StartMonitoring
  \/ DeviceChange \/ BeginStop \/ BrakeDone \/ BrakeFails \/ StopActivated

(***************************************************************************)
(* Calls on a MovementValidator                                            *)
(***************************************************************************)
NoCall == [fn |-> "none", args |-> <<>>]

ValidatorInit ==
  /\ vCfg = "default"
  /\ vCall = NoCall
  /\ vRes = Valid

ValidatorFrame ==
  /\ estopLog' = NoStop
  /\ UNCHANGED <<qvars, svars, issued, evars, tvars, bvars, pvars, lvars, gvars>>

\* new MovementValidator(bounds, calibration, simulationMode)
NewValidator ==
  /\ vCall = NoCall
  /\ \E id \in ConfigIds : id # vCfg /\ vCfg' = id
  /\ vCall' = NoCall
  /\ vRes' = Valid
  /\ ValidatorFrame

\* the caller has taken the result of the last call
Returned ==
  /\ vCall # NoCall
  /\ vCall' = NoCall
  /\ vRes' = Valid
  /\ UNCHANGED vCfg
  /\ ValidatorFrame

ValidatePosition ==
  /\ vCall = NoCall
  /\ \E x, y \in Coords(vCfg) :
       /\ vCall' = [fn |-> "validatePosition", args |-> <<x, y>>]
       /\ vRes' = validatePosition(Config(vCfg), x, y)
  /\ UNCHANGED vCfg
  /\ ValidatorFrame

ValidatePath ==
  /\ vCall = NoCall
  /\ \E x0, y0, x1, y1 \in Coords(vCfg) :
       /\ vCall' = [fn |-> "validatePath", args |-> <<x0, y0, x1, y1>>]
       /\ vRes' = validatePath(Config(vCfg), x0, y0, x1, y1)
  /\ UNCHANGED vCfg
  /\ ValidatorFrame

ValidateSequence ==
  /\ vCall = NoCall
  /\ \E ms \in MoveLists(SeqCoords(vCfg), MaxSeqLen) :
       LET sequence == [moves |-> ms, boundingBox |-> calculateBoundingBox(ms)]
       IN /\ vCall' = [fn |-> "validateSequence", args |-> <<sequence>>]
          /\ vRes' = validateSequence(Config(vCfg), sequence)
  /\ UNCHANGED vCfg
  /\ ValidatorFrame

NextValidator ==
  \/ NewValidator \/ Returned
  \/ ValidatePosition \/ ValidatePath \/ ValidateSequence

(***************************************************************************)
(* optimizePlotterMoves applied to move lists                              *)
(***************************************************************************)
\* longest move list handed to optimizePlotterMoves
MaxMoves == 3

\* the moves the lists are made of
OptMoves ==
  { Mv(t, x, y, z) : t \in {"move", "draw"}, x \in {0, 1}, y \in {0, 1},
                     z \in {NoZ, -45} }

\* the lists of at most n elements of S
RECURSIVE ListsOf(_, _)
ListsOf(S, n) ==
  IF n = 0 THEN { <<>> }
  ELSE LET shorter == ListsOf(S, n - 1)
       IN shorter \cup { Append(l, e) : l \in shorter, e \in S }

OptInit ==
  /\ optPc = "idle"
  /\ optSim = FALSE
  /\ optGiven = <<>>
  /\ optArg = <<>>
  /\ optOnce = <<>>
  /\ optTwice = <<>>

OptFrame ==
  /\ estopLog' = NoStop
  /\ UNCHANGED <<qvars, svars, issued, evars, tvars, bvars, mvars, lvars, gvars>>

\* once = PathProcessor.optimizePlotterMoves(moves, simulationMode)
OptimizeMoves ==
  /\ optPc = "idle"
  /\ \E moves \in ListsOf(OptMoves, MaxMoves), simulationMode \in BOOLEAN :
       /\ optSim' = simulationMode
       /\ optGiven' = moves
       /\ optArg' = ArgumentAfter(moves, simulationMode)
       /\ optOnce' = Optimize(moves, simulationMode)
  /\ optPc' = "once"
  /\ optTwice' = <<>>
  /\ OptFrame

\* twice = PathProcessor.optimizePlotterMoves(once, simulationMode)
OptimizeAgain ==
  /\ optPc = "once"
  /\ optTwice' = Optimize(optOnce, optSim)
  /\ optOnce' = ArgumentAfter(optOnce, optSim)
  /\ optPc' = "twice"
  /\ UNCHANGED <<optSim, optGiven, optArg>>
  /\ OptFrame

\* the caller drops the lists
OptimizeDone ==
  /\ optPc = "twice"
  /\ optPc' = "idle"
  /\ optSim' = FALSE
  /\ optGiven' = <<>> /\ optArg' = <<>> /\ optOnce' = <<>> /\ optTwice' = <<>>
  /\ OptFrame

NextOptimize == OptimizeMoves \/ OptimizeAgain \/ OptimizeDone

(***************************************************************************)
(* PathPlanner: freehand conversion, interchange documents                 *)
(***************************************************************************)
Path(t, sx, sy, ex, ey) ==
  [type |-> t, startX |-> sx, startY |-> sy, endX |-> ex, endY |-> ey]

\* the segments of a freehand drawing: every segment starts where the one
\* before it ended, the first at (0,0)
PathsOf(strokes) ==
  [k \in DOMAIN strokes |->
     Path(strokes[k].type,
          IF k = 1 THEN 0 ELSE strokes[k - 1].x,
          IF k = 1 THEN 0 ELSE strokes[k - 1].y,
          strokes[k].x, strokes[k].y)]

Strokes == { [type |-> t, x |-> x, y |-> y] : t \in {"move", "draw"},
                                               x \in {0, 1}, y \in {0, 1} }

PreviewPathInputs == { PathsOf(s) : s \in ListsOf(Strokes, MaxMoves) }

Sequence(name, moves, box) == [name |-> name, moves |-> moves, boundingBox |-> box]

\* paths.map(path => ({type, x: path.endX, y: path.endY, z: type === 'move' ? 0 : -45}))
MovesOfPaths(paths) ==
  [k \in DOMAIN paths |->
     Mv(paths[k].type, paths[k].endX, paths[k].endY,
        IF paths[k].type = "move" THEN 0 ELSE -45)]

\* PathPlanner.optimizePath
optimizePath(moves) == optimizePlotterMoves(moves)

\* convertPreviewPathsToSequence: the object literal evaluates optimizePath(moves)
\* first and calculateBoundingBox(moves) after it, on the array the reduce wrote to
convertPreviewPathsToSequence(paths, name) ==
  LET moves == MovesOfPaths(paths)
  IN Sequence(name, optimizePath(moves),
              calculateBoundingBox(ArgumentAfter(moves, FALSE)))

\* JSON.stringify(sequence, null, 2): a move without z is written without the key
WrittenMove(m) == IF m.z = NoZ THEN <<m.type, m.x, m.y>> ELSE <<m.type, m.x, m.y, m.z>>

Stringify(sequence) ==
  [json |-> TRUE, isObject |-> TRUE,
   hasName |-> TRUE, name |-> sequence.name,
   hasMoves |-> TRUE, moves |-> [k \in DOMAIN sequence.moves |-> WrittenMove(sequence.moves[k])],
   boundingBox |-> sequence.boundingBox]

\* JSON.parse of one entry of moves
ParsedMove(e) == Mv(e[1], e[2], e[3], IF Len(e) = 4 THEN e[4] ELSE NoZ)

NoBox == [minX |-> 0, maxX |-> 0, minY |-> 0, maxY |-> 0]

\* text that is no JSON, the document null, documents without moves or name, and
\* the documents of every move list, one of them with a box of its own
Documents ==
  { [json |-> FALSE, isObject |-> FALSE, hasName |-> FALSE, name |-> "",
     hasMoves |-> FALSE, moves |-> <<>>, boundingBox |-> NoBox],
    [json |-> TRUE, isObject |-> FALSE, hasName |-> FALSE, name |-> "",
     hasMoves |-> FALSE, moves |-> <<>>, boundingBox |-> NoBox],
    [json |-> TRUE, isObject |-> TRUE, hasName |-> TRUE, name |-> "plot",
     hasMoves |-> FALSE, moves |-> <<>>, boundingBox |-> NoBox],
    [json |-> TRUE, isObject |-> TRUE, hasName |-> FALSE, name |-> "",
     hasMoves |-> TRUE, moves |-> << <<"draw", 1, 1>> >>,
     boundingBox |-> [minX |-> 0, maxX |-> 5, minY |-> 0, maxY |-> 5]] }
  \cup { Stringify(Sequence("plot", ms, calculateBoundingBox(ms))) :
           ms \in ListsOf(OptMoves, MaxMoves) }

Thrown == [thrown |-> TRUE, sequence |-> <<>>]
Returns(sequence) == [thrown |-> FALSE, sequence |-> <<sequence>>]

\* a document passes when it has a moves key at all
HasMoves_Present(data) == data.hasMoves

\* data.moves?.length is truthy
HasMoves(data) == data.hasMoves /\ Len(data.moves) > 0

\* PathPlanner.loadSequence(json); the validator, when set, is the one initialize()
\* made: new MovementValidator(MOVEMENT_BOUNDS, calibration)
loadSequence(json, validator) ==
  IF ~json.json \/ ~json.isObject THEN Thrown
  ELSE IF ~HasMoves(json) THEN Thrown
  ELSE LET moves == [k \in DOMAIN json.moves |-> ParsedMove(json.moves[k])]
           sequence == Sequence(IF json.hasName /\ json.name # "" THEN json.name
                                ELSE "Unnamed Sequence",
                                moves, calculateBoundingBox(moves))
       IN IF validator /\ ~validateSequence(Config("default"), sequence).valid
            THEN Thrown
            ELSE Returns(sequence)

NoPlannerCall == [fn |-> "none", arg |-> <<>>]
NoSequence == Sequence("", <<>>, NoBox)
NoDocument == Stringify(NoSequence)

PlannerInit ==
  /\ plValidator = FALSE
  /\ plPc = "idle"
  /\ plCall = NoPlannerCall
  /\ plRes = Thrown
  /\ plSaved = NoSequence
  /\ plDoc = NoDocument

PlannerFrame ==
  /\ estopLog' = NoStop
  /\ UNCHANGED <<qvars, svars, issued, evars, tvars, bvars, mvars, pvars, gvars>>

\* PathPlanner.initialize(calibration)
Initialize ==
  /\ plPc = "idle"
  /\ ~plValidator
  /\ plValidator' = TRUE
  /\ UNCHANGED <<plPc, plCall, plRes, plSaved, plDoc>>
  /\ PlannerFrame

\* PathPlanner.convertPreviewPathsToSequence(paths, 'Manual Drawing')
ConvertPreviewPaths ==
  /\ plPc = "idle"
  /\ \E paths \in PreviewPathInputs :
       /\ plCall' = [fn |-> "convertPreviewPathsToSequence", arg |-> paths]
       /\ plRes' = Returns(convertPreviewPathsToSequence(paths, "Manual Drawing"))
  /\ plPc' = "returned"
  /\ UNCHANGED <<plValidator, plSaved, plDoc>>
  /\ PlannerFrame

\* PathPlanner.loadSequence(text)
LoadSequence ==
  /\ plPc = "idle"
  /\ \E json \in Documents :
       /\ plCall' = [fn |-> "loadSequence", arg |-> json]
       /\ plRes' = loadSequence(json, plValidator)
  /\ plPc' = "returned"
  /\ UNCHANGED <<plValidator, plSaved, plDoc>>
  /\ PlannerFrame

\* downloadSequence(sequence) on the sequence the Planner returned
DownloadSequence ==
  /\ plPc = "returned"
  /\ ~plRes.thrown
  /\ plSaved' = plRes.sequence[1]
  /\ plDoc' = Stringify(plRes.sequence[1])
  /\ plPc' = "saved"
  /\ UNCHANGED <<plValidator, plCall, plRes>>
  /\ PlannerFrame

\* PathPlanner.loadSequence on the document that was written
LoadSaved ==
  /\ plPc = "saved"
  /\ plCall' = [fn |-> "loadSequence", arg |-> plDoc]
  /\ plRes' = loadSequence(plDoc, plValidator)
  /\ plPc' = "reloaded"
  /\ UNCHANGED <<plValidator, plSaved, plDoc>>
  /\ PlannerFrame

\* the caller is done with the sequence
PlannerDone ==
  /\ plPc \in {"returned", "reloaded"}
  /\ plPc' = "idle"
  /\ plCall' = NoPlannerCall
  /\ plRes' = Thrown
  /\ plSaved' = NoSequence
  /\ plDoc' = NoDocument
  /\ UNCHANGED plValidator
  /\ PlannerFrame

NextPlanner ==
  \/ Initialize \/ ConvertPreviewPaths \/ LoadSequence
  \/ DownloadSequence \/ LoadSaved \/ PlannerDone

(***************************************************************************)
(* PathPlanner.parseSVGPath                                                *)
(***************************************************************************)
\* longest command list handed to the loop
MaxCmds == 3

\* a command of svg-path-parser: moveto and lineto carry x and y, closepath
\* carries no coordinates
Cmd(code, x, y) == [code |-> code, hasXY |-> TRUE, x |-> x, y |-> y]
ClosePath == [code |-> "Z", hasXY |-> FALSE, x |-> 0, y |-> 0]

Commands ==
  { Cmd(c, x, y) : c \in {"M", "L"}, x \in {0, 1, 2}, y \in {0, 1, 2} } \cup {ClosePath}

\* if (!cmd.x || !cmd.y) continue: undefined and 0 are both falsy
Skipped(cmd) == ~cmd.hasXY \/ cmd.x = 0 \/ cmd.y = 0

\* one pass of the for loop: the moves pushed for cmd and penDown after it
LoopStep(cmd, moves, penDown, scale) ==
  IF Skipped(cmd) THEN [pushed |-> <<>>, penDown |-> penDown]
  ELSE IF cmd.code = "M"
    THEN [pushed |-> << Mv("move", cmd.x * scale, cmd.y * scale, 0) >>,
          penDown |-> FALSE]
  ELSE IF cmd.code = "L"
    THEN [pushed |-> (IF penDown THEN <<>>
                      ELSE << Mv("move", cmd.x * scale, cmd.y * scale, -45) >>)
                     \o << Mv("draw", cmd.x * scale, cmd.y * scale, NoZ) >>,
          penDown |-> TRUE]
  ELSE IF cmd.code = "Z" /\ Len(moves) > 0
    THEN [pushed |-> << Mv("draw", moves[1].x, moves[1].y, NoZ) >>, penDown |-> penDown]
  ELSE [pushed |-> <<>>, penDown |-> penDown]

\* the loop over commands from command i on: what each command pushed, penDown
\* after each, and the moves at the end
RECURSIVE ParseLoop(_, _, _, _, _, _, _)
ParseLoop(commands, scale, i, moves, penDown, pushedLog, penLog) ==
  IF i > Len(commands)
    THEN [moves |-> moves, pushed |-> pushedLog, pen |-> penLog]
    ELSE LET step == LoopStep(commands[i], moves, penDown, scale)
         IN ParseLoop(commands, scale, i + 1, moves \o step.pushed, step.penDown,
                      Append(pushedLog, step.pushed), Append(penLog, step.penDown))

\* moves.push({...moves[moves.length - 1], z: 0}) when there are moves
EndPenUp(moves) ==
  IF Len(moves) > 0 THEN Append(moves, [moves[Len(moves)] EXCEPT !.z = 0]) ELSE moves

\* a coordinate after scaling, as the exact fraction num / den; den = 0 stands
\* for NaN (0 * Infinity, when the path has no extent at all)
Frac(num, den) == [num |-> num, den |-> den]

\* validateAndScalePath(moves, {width, height}) with simulationMode false: the
\* bounds of the moves, scale = min(width / dx, height / dy) * 0.9, every
\* coordinate (v - min) * scale
validateAndScalePath(moves, width, height) ==
  IF Len(moves) = 0 THEN <<>>
  ELSE LET box == calculateBoundingBox(moves)
           dx == box.maxX - box.minX
           dy == box.maxY - box.minY
           byX == dx > 0 /\ (dy = 0 \/ width * dy <= height * dx)
           top == IF byX THEN 9 * width ELSE 9 * height
           bot == IF byX THEN 10 * dx ELSE 10 * dy
       IN [k \in DOMAIN moves |->
             [type |-> moves[k].type, z |-> moves[k].z,
              x |-> Frac((moves[k].x - box.minX) * top, bot),
              y |-> Frac((moves[k].y - box.minY) * top, bot)]]

ParseInit ==
  /\ svPc = "idle"
  /\ svCommands = <<>>
  /\ svScale = 1
  /\ svEmitted = <<>>
  /\ svPenDown = <<>>
  /\ svMoves = <<>>
  /\ svRes = <<>>

ParseFrame ==
  /\ estopLog' = NoStop
  /\ UNCHANGED <<qvars, svars, issued, evars, tvars, bvars, mvars, pvars, lvars>>

\* PathPlanner.parseSVGPath(svgPath, scale)
ParseSVGPath ==
  /\ svPc = "idle"
  /\ \E commands \in ListsOf(Commands, MaxCmds), scale \in {1, 2} :
       LET loop == ParseLoop(commands, scale, 1, <<>>, FALSE, <<>>, <<>>)
           moves == EndPenUp(loop.moves)
       IN /\ svCommands' = commands
          /\ svScale' = scale
          /\ svEmitted' = loop.pushed
          /\ svPenDown' = loop.pen
          /\ svMoves' = moves
          /\ svRes' = validateAndScalePath(moves, 148, 210)
  /\ svPc' = "returned"
  /\ ParseFrame

\* the caller takes the moves
ParseReturned ==
  /\ svPc = "returned"
  /\ svPc' = "idle"
  /\ svCommands' = <<>> /\ svScale' = 1
  /\ svEmitted' = <<>> /\ svPenDown' = <<>> /\ svMoves' = <<>> /\ svRes' = <<>>
  /\ ParseFrame

NextParse == ParseSVGPath \/ ParseReturned

Init ==
  /\ QueueInit /\ SafetyInit /\ ExecInit /\ TimerInit /\ BrakeInit /\ ValidatorInit
  /\ OptInit /\ PlannerInit /\ ParseInit
  /\ estopLog = NoStop

\* parseSVGPath on its own
SpecParse == Init /\ [][NextParse]_vars

\* the Path Planner on its own
SpecPlanner == Init /\ [][NextPlanner]_vars

\* optimizePlotterMoves on its own
SpecOptimize == Init /\ [][NextOptimize]_vars

\* the Movement Validator on its own
SpecValidator == Init /\ [][NextValidator]_vars

\* the brakes of the Safety Monitor's emergency stop
SpecBrake == Init /\ [][NextBrake]_vars

\* commands submitted through executeCommand, with their timeouts
SpecTimed == Init /\ [][NextTimed]_vars

NextQueue == Add \/ CompleteOk \/ CompleteFail \/ Clear

Spec == Init /\ [][NextQueue]_vars

\* the Safety Monitor on its own
SpecSafety == Init /\ [][NextSafety]_vars

\* the Path Executor on its own
SpecExec == Init /\ [][NextExec]_vars

\* emergency stops while callers keep commands queued: the Safety Monitor polls,
\* callers submit commands, the operator may stop
\* the executor in hardware mode with the Safety Monitor polling beside it: the
\* first sequence of the executor, started while the monitor has not stopped
\* anything yet
SequenceStarts == sinceStop < 0 /\ exPc = "idle" /\ ExecuteSequence

NextHalt ==
  \/ SequenceStarts
  \/ PenDone \/ PenFails \/ AxisDone \/ AxisFails \/ PenUpDone \/ PenUpFails
  \/ StartMonitoring \/ PollTick \/ StatusRead \/ StopSettled

SpecHalt == Init /\ [][NextHalt]_vars

NextStops ==
  \/ Add \/ OperatorStop
  \/ StartMonitoring \/ AdvanceIdle \/ PollTick \/ StatusNull \/ StatusRead
  \/ StopSettled

SpecStops == Init /\ [][NextStops]_vars

(***************************************************************************)
(* Claims about the CommandQueue                                           *)
(***************************************************************************)
NotDropped(i) == opState[i] # "dropped"
Started(i) == opState[i] \in {"running", "done"}
Settled(i) == handle[i] \in {"resolved", "rejected"}

\* C1: for any interleaving of add(), clear() and completions, at most one
\* submitted operation is in flight (started and not yet settled) at any instant.
C1_AtMostOneInFlight == Cardinality(InFlight) <= 1

\* C2: for operations submitted with add() and never cleared, a later-submitted
\* operation is not started until every earlier-submitted one has settled, and
\* the add() handles settle in submission order.
C2_FifoStartAndSettle ==
  /\ \A i, j \in Ops :
       (i < j /\ NotDropped(i) /\ NotDropped(j) /\ Started(j)) => Settled(i)
  /\ ~outOfOrder

\* C9: when a queued operation fails, exactly that operation's handle rejects
\* (no other handle changes), the drain loop goes on and starts the operation at
\* the head of the queue, and every settled handle carries the outcome of its own
\* operation.
C9_FailureIsolated ==
  /\ [][\A i \in Ops :
          (opState[i] = "running" /\ opState'[i] = "done" /\ outcome'[i] = "fail")
          => /\ handle'[i] = "rejected"
             /\ \A j \in Ops \ {i} : handle'[j] = handle[j]
             /\ queue # <<>> =>
                  /\ opState'[Head(queue)] = "running"
                  /\ queue' = Tail(queue)]_vars
  /\ [](\A i \in Ops :
          /\ handle[i] = "resolved" <=> outcome[i] = "ok"
          /\ handle[i] = "rejected" <=> outcome[i] = "fail")

\* C9 witness: an operation has just failed and its handle rejected, the drain
\* loop has started the next operation and one more is still queued behind it;
\* no clear() has touched any operation.
C9_Witness ==
  /\ lastCall = "complete"
  /\ ranThroughClear = {}
  /\ \A i \in Ops : NotDropped(i)
  /\ \E i, j, k \in Ops :
       /\ i < j /\ j < k
       /\ lastSettled = i
       /\ outcome[i] = "fail" /\ handle[i] = "rejected"
       /\ opState[j] = "running"
       /\ opState[k] = "queued"

\* C10: clear() removes every not-yet-started operation (pendingCommands = 0,
\* isExecuting = FALSE), a removed operation is never started afterwards, and an
\* operation in flight at the clear() keeps running and can only end by completing.
C10_ClearDropsPendingOnly ==
  /\ [](lastCall = "clear" => (pendingCommands = 0 /\ ~isExecuting))
  /\ [][lastCall' = "clear" =>
          \A i \in Ops :
            /\ opState[i] = "queued" => opState'[i] = "dropped"
            /\ opState[i] = "running" => opState'[i] = "running"]_vars
  /\ [][\A i \in Ops : opState[i] = "dropped" =>
          (opState'[i] = "dropped" /\ handle'[i] = handle[i])]_vars
  /\ [](\A i \in ranThroughClear :
          /\ opState[i] \in {"running", "done"}
          /\ opState[i] = "done" <=> Settled(i))

\* C10 witness: an operation that was in flight at a clear() has completed, and an
\* operation that clear() removed is still unstarted.
C10_Witness ==
  \E i, j \in Ops :
    /\ i \in ranThroughClear /\ opState[i] = "done" /\ Settled(i)
    /\ opState[j] = "dropped" /\ handle[j] = "pending"

(***************************************************************************)
(* Claims about emergency stops and the Safety Monitor                     *)
(***************************************************************************)
\* C3: every emergency stop, whether issued by the Safety Monitor, by the
\* orchestration layer or by the operator, leaves the Command Queue with no
\* pending operation and issues a brake to each of the axes A, B and C.
C3_EveryStopClearsAndBrakes ==
  estopLog.by # "none" => (estopLog.pending = 0 /\ estopLog.braked = PortSet)

\* C7: a poll tick that observes axis A at temperature 55 (maxTemperature 50, all
\* other fields in range) makes exactly one handleViolation call and, the guard
\* being free, starts exactly one emergency stop; a check made less than 1000 ms
\* after the monitor started an emergency stop starts no further one.
C7_OneViolationOneStop ==
  /\ (lastCheck.port = "A" /\ lastCheck.sample = "hot") => lastCheck.calls = 1
  /\ (lastCheck.port = "A" /\ lastCheck.sample = "hot" /\ ~lastCheck.guard)
       => (lastCheck.stops = 1 /\ estopLog.by = "monitor")
  /\ lastCheck.recent => (lastCheck.stops = 0 /\ estopLog.by = "none")

\* C7 witness: the scenario itself: port A, temperature 55, guard free; one call,
\* one emergency stop, the guard now set.
C7_Witness ==
  /\ lastCheck.port = "A" /\ lastCheck.sample = "hot"
  /\ Samples[lastCheck.sample].temperature = 55 /\ Limits("A").maxTemperature = 50
  /\ ~lastCheck.guard /\ lastCheck.calls = 1 /\ lastCheck.stops = 1
  /\ stopRequested /\ estopPhase = "braking"

\* C8: while monitoring has been started (and not stopped by its owner) and the
\* hub remains connected, the poll interval stays set, so that limit checks keep
\* running on every poll tick, also after a violation has been handled.
C8_PollingContinues == (wanted /\ hubConnected) => monitoring

(***************************************************************************)
(* Claims about the Path Executor                                          *)
(***************************************************************************)
ExecSettled == exPc \in {"resolved", "rejected"}

\* the pen axis has been commanded and its latest command is the up position (0)
PenCommandedUp ==
  \E k \in DOMAIN issued :
    /\ issued[k].port = "C" /\ issued[k].deg = 0
    /\ \A j \in DOMAIN issued : j > k => issued[j].port # "C"

\* C4: whenever executeSequence has started executing moves (hardware mode), the pen
\* axis has been commanded to its up position by the time executeSequence settles,
\* whether all moves succeeded or a move failed part-way.
C4_PenUpBeforeSettle ==
  (~exSim /\ ExecSettled /\ exI >= 1) => PenCommandedUp

\* C5: if a step of move k fails while a sequence is executed, no rotation of a
\* move after k is issued and the call rejects (the failure reaches the caller), and
\* outside simulation mode the step that reports the failure starts an emergency
\* stop.
C5_FailureAbortsReportsStops ==
  /\ exFailedAt > 0 =>
       /\ exPc = "rejected"
       /\ \A k \in DOMAIN issued : issued[k].move <= exFailedAt
  /\ (~exSim /\ exFailedAt > 0) => estopLog.by # "none"

\* C6: every axis rotation the Path Executor issues (pen on C, X on B, Y on A) is
\* made inside a command submitted to the Command Queue, so the queue has seen at
\* least as many submissions as rotations were issued.
C6_RotationsThroughQueue ==
  /\ \A k \in DOMAIN issued : issued[k].queued
  /\ Len(issued) <= submitted

\* C11: when the timeout of an operation submitted through executeCommand expires
\* before the operation has settled (COMMAND_TIMEOUT after the queue started it),
\* the caller's handle rejects with the timeout error, and in the same step the
\* queue starts the next pending operation, if there is one.
C11_TimeoutRejectsAndDrains ==
  [][\A i \in Ops :
       (handle[i] = "pending" /\ TimerDue(timer[i]) /\ timer'[i] # timer[i]) =>
         /\ handle'[i] = "rejected"
         /\ outcome'[i] = "timeout"
         /\ queue # <<>> => /\ opState'[Head(queue)] = "running"
                            /\ timer'[Head(queue)] = 0]_vars

C11_Witness ==
  \E i, j \in Ops :
    /\ i < j
    /\ outcome[i] = "timeout" /\ handle[i] = "rejected" /\ body[i] = "running"
    /\ opState[j] = "running" /\ timer[j] = 0
    /\ lastCall = "complete" /\ lastSettled = i

\* C12: in an emergency stop a brake is attempted on every attached axis, whatever
\* happens to the brakes of the other axes, and the failure notifications are
\* exactly one per axis whose brake failed.
C12_BrakesIndependent ==
  /\ stopPc # "idle" =>
       \A p \in PortSet : IF p \in attached
                            THEN brake[p] \in {"inflight", "ok", "fail"}
                            ELSE brake[p] = "absent"
  /\ notes.failed = {p \in PortSet : brake[p] = "fail"}
  /\ ~notes.stopFailed
  /\ stopPc = "done" => notes.activated

C12_Witness ==
  /\ stopPc = "done"
  /\ attached = PortSet
  /\ brake["A"] = "fail" /\ brake["B"] = "ok" /\ brake["C"] = "fail"
  /\ notes.failed = {"A", "C"}

\* C13: for every move that carries a pen command, the rotation of the pen axis C
\* is issued before the rotations of B and A of that move, and B and A are not
\* issued while the pen rotation is still awaited.
C13_PenSettlesFirst ==
  /\ (rotB = "inflight" \/ rotA = "inflight") => rotC # "inflight"
  /\ exPc = "pen" =>
       /\ rotC = "inflight"
       /\ ~\E b \in DOMAIN issued : issued[b].move = exI /\ issued[b].port \in {"A", "B"}
  /\ \A b \in DOMAIN issued :
       (issued[b].move >= 1 /\ issued[b].port \in {"A", "B"}
          /\ exMoves[issued[b].move].z # NoZ) =>
         \E c \in 1..(b - 1) :
           /\ issued[c].move = issued[b].move
           /\ issued[c].port = "C"
           /\ issued[c].deg = exMoves[issued[b].move].z
  /\ \A b, c \in DOMAIN issued :
       (issued[b].move >= 1 /\ issued[c].move = issued[b].move
          /\ issued[c].port = "C" /\ issued[b].port \in {"A", "B"}) => c < b

C13_Witness ==
  /\ exPc = "axes" /\ exI >= 2
  /\ rotC = "ok" /\ rotB = "inflight" /\ rotA = "inflight"
  /\ exMoves[exI].z # NoZ
  /\ Len(issued) >= 3
  /\ issued[Len(issued) - 2].port = "C" /\ issued[Len(issued) - 2].move = exI
  /\ issued[Len(issued) - 1].port = "B" /\ issued[Len(issued) - 1].move = exI
  /\ issued[Len(issued)].port = "A" /\ issued[Len(issued)].move = exI

\* the moves of the running executeSequence call that have completed
ExCompleted ==
  IF exPc \in {"pen", "axes", "sim"} \/ (exPc = "rejected" /\ exFailedAt > 0)
    THEN exI - 1 ELSE exI

\* C14: onProgress has been called exactly once per completed move, the k-th call
\* with (k / total) x 100; the values are strictly increasing, a failed move adds
\* none, and the last value of a run that resolved is 100.
C14_ProgressPerMove ==
  /\ Len(exProgress) = ExCompleted
  /\ \A k \in DOMAIN exProgress :
       /\ exProgress[k].den > 0
       /\ exProgress[k].num * Len(exMoves) = k * 100 * exProgress[k].den
  /\ \A j, k \in DOMAIN exProgress :
       j < k => exProgress[j].num * exProgress[k].den < exProgress[k].num * exProgress[j].den
  /\ (exPc = "resolved" /\ Len(exMoves) >= 1) =>
       exProgress[Len(exProgress)].num = 100 * exProgress[Len(exProgress)].den

C14_Witness ==
  /\ exPc = "rejected" /\ exFailedAt = 3
  /\ Len(exProgress) = 2

(***************************************************************************)
(* Claims about the Movement Validator                                     *)
(***************************************************************************)
\* the closed rectangle of a zone
InRectangle(x, y, zone) ==
  /\ zone.x1 <= x /\ x <= zone.x2
  /\ zone.y1 <= y /\ y <= zone.y2

\* the point lies within the travel bounds and the paper and in no danger zone
Admissible(cfg, x, y) ==
  /\ cfg.minX <= x /\ x <= cfg.maxX /\ cfg.minY <= y /\ y <= cfg.maxY
  /\ 0 <= x /\ x <= cfg.paperWidth /\ 0 <= y /\ y <= cfg.paperHeight
  /\ \A k \in DOMAIN cfg.dangerZones : ~InRectangle(x, y, cfg.dangerZones[k])

\* C15: with the simulation flag off, validatePosition(x, y) returns valid for every
\* point within the travel bounds and the paper and outside every danger zone, and
\* invalid with a reason for every other point; a point on the boundary of a danger
\* zone is rejected as inside it.
C15_PositionVerdict ==
  (vCall.fn = "validatePosition" /\ ~Config(vCfg).simulationMode) =>
    LET cfg == Config(vCfg)
        x == vCall.args[1]
        y == vCall.args[2]
    IN /\ vRes.valid <=> Admissible(cfg, x, y)
       /\ vRes.valid <=> vRes.reason = "none"
       /\ (\E k \in DOMAIN cfg.dangerZones :
              LET z == cfg.dangerZones[k]
              IN InRectangle(x, y, z) /\ (x \in {z.x1, z.x2} \/ y \in {z.y1, z.y2}))
            => ~vRes.valid
       /\ (vRes.reason = "in danger zone") =>
            \E k \in DOMAIN cfg.dangerZones : InRectangle(x, y, cfg.dangerZones[k])

\* a point on the edge of a zone inside the paper is rejected as in the zone
C15_Witness ==
  /\ vCall = [fn |-> "validatePosition", args |-> <<10, 5>>]
  /\ vCfg = "default"
  /\ vRes = Invalid("in danger zone")

\* twice the signed area of the triangle a, b, c
Turn(a, b, c) == (b[1] - a[1]) * (c[2] - a[2]) - (b[2] - a[2]) * (c[1] - a[1])

Sign(n) == IF n > 0 THEN 1 ELSE IF n < 0 THEN -1 ELSE 0

\* c lies in the bounding box of a and b
InBox(a, b, c) ==
  /\ (a[1] <= c[1] /\ c[1] <= b[1]) \/ (b[1] <= c[1] /\ c[1] <= a[1])
  /\ (a[2] <= c[2] /\ c[2] <= b[2]) \/ (b[2] <= c[2] /\ c[2] <= a[2])

\* the closed segments p-q and r-s are not parallel and have a point in common
Crosses(p, q, r, s) ==
  /\ (q[1] - p[1]) * (s[2] - r[2]) # (q[2] - p[2]) * (s[1] - r[1])
  /\ \/ /\ Sign(Turn(p, q, r)) * Sign(Turn(p, q, s)) < 0
        /\ Sign(Turn(r, s, p)) * Sign(Turn(r, s, q)) < 0
     \/ Turn(p, q, r) = 0 /\ InBox(p, q, r)
     \/ Turn(p, q, s) = 0 /\ InBox(p, q, s)
     \/ Turn(r, s, p) = 0 /\ InBox(r, s, p)
     \/ Turn(r, s, q) = 0 /\ InBox(r, s, q)

\* the segment p-q crosses one of the four edges of the zone
CrossesAnEdge(p, q, z) ==
  \/ Crosses(p, q, <<z.x1, z.y1>>, <<z.x2, z.y1>>)
  \/ Crosses(p, q, <<z.x2, z.y1>>, <<z.x2, z.y2>>)
  \/ Crosses(p, q, <<z.x1, z.y2>>, <<z.x2, z.y2>>)
  \/ Crosses(p, q, <<z.x1, z.y1>>, <<z.x1, z.y2>>)

PathStart == <<vCall.args[1], vCall.args[2]>>
PathEnd == <<vCall.args[3], vCall.args[4]>>

\* the call is validatePath on a validator with the simulation flag off
PathCall == vCall.fn = "validatePath" /\ ~Config(vCfg).simulationMode

\* the segment of the call has both end points outside some zone and crosses one of
\* that zone's edges
CrossesSomeZone ==
  \E k \in DOMAIN Config(vCfg).dangerZones :
    LET z == Config(vCfg).dangerZones[k]
    IN /\ ~InRectangle(PathStart[1], PathStart[2], z)
       /\ ~InRectangle(PathEnd[1], PathEnd[2], z)
       /\ CrossesAnEdge(PathStart, PathEnd, z)

\* the distance between the end points is at most the larger paper dimension
WithinLength ==
  LET dx == PathEnd[1] - PathStart[1]
      dy == PathEnd[2] - PathStart[2]
      m == IF Config(vCfg).paperWidth > Config(vCfg).paperHeight
             THEN Config(vCfg).paperWidth ELSE Config(vCfg).paperHeight
  IN dx * dx + dy * dy <= m * m

BothEndsAdmissible ==
  /\ Admissible(Config(vCfg), PathStart[1], PathStart[2])
  /\ Admissible(Config(vCfg), PathEnd[1], PathEnd[2])

\* C16 as stated: for any danger zone Z and any segment with both end points
\* outside Z that crosses one of Z's edges, validatePath returns invalid and the
\* reason is a zone-related one (the zone-crossing or the in-zone reason).
C16_CrossingGivesZoneReason ==
  (PathCall /\ CrossesSomeZone) =>
    /\ ~vRes.valid
    /\ vRes.reason \in {"crosses danger zone", "in danger zone"}

\* C16 as amended: such a segment is always invalid; the reason is the zone-crossing
\* one when both end points are valid positions and the segment is no longer than
\* the larger paper dimension, and otherwise the reason of the end-point or length
\* check that rejected it first.
C16_CrossingRejected ==
  (PathCall /\ CrossesSomeZone) =>
    /\ ~vRes.valid
    /\ (BothEndsAdmissible /\ WithinLength) => vRes.reason = "crosses danger zone"
    /\ (BothEndsAdmissible /\ ~WithinLength) => vRes.reason = "path too long"
    /\ ~BothEndsAdmissible =>
         vRes.reason \in {"x outside bounds", "y outside bounds",
                          "outside paper bounds", "in danger zone"}

\* a segment inside the paper that passes through a zone from left to right
C16_Witness ==
  /\ vCfg = "inner"
  /\ vCall = [fn |-> "validatePath", args |-> <<2, 4, 5, 4>>]
  /\ CrossesSomeZone /\ BothEndsAdmissible /\ WithinLength
  /\ vRes = Invalid("crosses danger zone")

\* C17 as stated: with bounds 0-148 by 0-210 and the danger zone {-10,-10,10,10},
\* validatePath(20,20,5,5) returns invalid with the zone-crossing reason.
C17_ScenarioCrossingReason ==
  (vCfg = "default" /\ vCall = [fn |-> "validatePath", args |-> <<20, 20, 5, 5>>]) =>
    vRes = Invalid("crosses danger zone")

\* C17 as amended: that call returns invalid, and the reason is that of the position
\* check of the end point (5,5), which lies inside the zone.
C17_ScenarioEndPointInZone ==
  (vCfg = "default" /\ vCall = [fn |-> "validatePath", args |-> <<20, 20, 5, 5>>]) =>
    /\ ~vRes.valid
    /\ vRes.reason = "in danger zone"
    /\ InRectangle(5, 5, Config("default").dangerZones[1])

C17_Witness ==
  /\ vCfg = "default"
  /\ vCall = [fn |-> "validatePath", args |-> <<20, 20, 5, 5>>]
  /\ ~vRes.valid

\* C18: the rotation of an axis is the mm delta times that axis's degrees per mm;
\* with the simulation flag off, a segment that passes the end-point, length and
\* zone checks of validatePath is rejected exactly when the absolute rotation of
\* either axis exceeds 360 (360 itself passes); with 10 degrees per mm the move
\* from (0,0) to (30,0) is 300 degrees on X and 0 on Y, within the limit.
C18_RotationLimit ==
  /\ (PathCall /\ vRes.reason \notin {"x outside bounds", "y outside bounds",
                                       "outside paper bounds", "in danger zone",
                                       "path too long", "crosses danger zone"}) =>
       LET turnX == (PathEnd[1] - PathStart[1]) * Config(vCfg).calX
           turnY == (PathEnd[2] - PathStart[2]) * Config(vCfg).calY
           within == /\ -360 <= turnX /\ turnX <= 360
                     /\ -360 <= turnY /\ turnY <= 360
       IN /\ vRes.valid <=> within
          /\ ~vRes.valid => vRes.reason = "excessive rotation"
  /\ (vCfg = "default" /\ vCall = [fn |-> "validatePath", args |-> <<0, 0, 30, 0>>]) =>
       /\ AxisDegrees(30 - 0, Config(vCfg).calX) = 300
       /\ AxisDegrees(0 - 0, Config(vCfg).calY) = 0
       /\ vRes.reason # "excessive rotation"

\* a segment of exactly 360 degrees on X passes, and the scenario is evaluated
C18_Witness ==
  /\ vCfg = "corner"
  /\ vCall = [fn |-> "validatePath", args |-> <<0, 2, 6, 2>>]
  /\ AxisDegrees(6 - 0, Config(vCfg).calX) = MAX_DEGREES_PER_MOVE
  /\ vRes = Valid

\* the hop of move i starts at the previous move, the first at (0,0)
HopFrom(ms, i) == IF i = 1 THEN <<0, 0>> ELSE <<ms[i - 1].x, ms[i - 1].y>>

\* C19: with the simulation flag off, validateSequence returns invalid when the
\* bounding box of the sequence exceeds the paper; otherwise it returns valid
\* exactly when every hop (from (0,0) to the first move, then from move to move)
\* passes validatePath, and on failure the reason names the coordinates of the
\* first failing move.
C19_SequenceVerdict ==
  (vCall.fn = "validateSequence" /\ ~Config(vCfg).simulationMode) =>
    LET cfg == Config(vCfg)
        ms == vCall.args[1].moves
        box == vCall.args[1].boundingBox
        exceeds == \/ box.maxX > cfg.paperWidth \/ box.maxY > cfg.paperHeight
                   \/ box.minX < 0 \/ box.minY < 0
        HopOk(i) == validatePath(cfg, HopFrom(ms, i)[1], HopFrom(ms, i)[2],
                                 ms[i].x, ms[i].y).valid
    IN /\ exceeds => vRes = Invalid("exceeds paper bounds")
       /\ ~exceeds =>
            /\ vRes.valid <=> \A i \in DOMAIN ms : HopOk(i)
            /\ ~vRes.valid =>
                 \E i \in DOMAIN ms :
                   /\ ~HopOk(i)
                   /\ \A j \in 1..(i - 1) : HopOk(j)
                   /\ vRes.reason = "invalid move"
                   /\ vRes.at = <<ms[i].x, ms[i].y>>

\* a sequence whose first hop passes and whose second hop crosses a zone
C19_Witness ==
  /\ vCfg = "inner"
  /\ vCall.fn = "validateSequence"
  /\ Len(vCall.args[1].moves) = 2
  /\ ~vRes.valid
  /\ vRes.reason = "invalid move"
  /\ vRes.at = <<vCall.args[1].moves[2].x, vCall.args[1].moves[2].y>>
  /\ vRes.why = "crosses danger zone"

\* C20: optimizePlotterMoves is idempotent: for every move list m, the list
\* optimize(optimize(m)) equals the list optimize(m).
C20_OptimizeIdempotent ==
  optPc = "twice" => optTwice = optOnce

\* a list of three moves in which two consecutive draws were merged, optimized twice
C20_Witness ==
  /\ optPc = "twice"
  /\ ~optSim
  /\ Len(optGiven) = 3
  /\ Len(optOnce) = 2
  /\ optOnce[2].type = "draw"
  /\ optTwice = optOnce

\* the vertices a move list visits, in order
Vertices(moves) == [k \in DOMAIN moves |-> <<moves[k].x, moves[k].y>>]

\* a list of vertices without the repetitions of a vertex that follows itself
RECURSIVE Visited(_)
Visited(vs) ==
  IF Len(vs) <= 1 THEN vs
  ELSE LET front == Visited(SubSeq(vs, 1, Len(vs) - 1))
       IN IF vs[Len(vs)] = front[Len(front)] THEN front ELSE Append(front, vs[Len(vs)])

\* the Travel moves of a list, in order
Travels(moves) == SelectSeq(moves, LAMBDA m : m.type = "move")

\* C21: the polyline traced by the output of optimizePlotterMoves passes through
\* the same vertices in the same order as the polyline traced by its input, and
\* the Travel moves keep their order.
C21_TracePreserved ==
  optPc = "once" =>
    /\ Visited(Vertices(optOnce)) = Visited(Vertices(optGiven))
    /\ Travels(optOnce) = Travels(optGiven)

\* the box is the least one that holds every move of the list
IsBoxOf(box, moves) ==
  /\ \A k \in DOMAIN moves :
       /\ box.minX <= moves[k].x /\ moves[k].x <= box.maxX
       /\ box.minY <= moves[k].y /\ moves[k].y <= box.maxY
  /\ \E k \in DOMAIN moves : moves[k].x = box.minX
  /\ \E k \in DOMAIN moves : moves[k].x = box.maxX
  /\ \E k \in DOMAIN moves : moves[k].y = box.minY
  /\ \E k \in DOMAIN moves : moves[k].y = box.maxY

PlannerReturned == plPc \in {"returned", "reloaded"} /\ ~plRes.thrown

\* C22: every Sequence the Planner returns, from freehand conversion and from
\* interchange load, has a boundingBox equal to the minimum and maximum x and y
\* over exactly the moves the returned Sequence contains.
C22_BoxOfReturnedMoves ==
  (PlannerReturned /\ Len(plRes.sequence[1].moves) > 0) =>
    IsBoxOf(plRes.sequence[1].boundingBox, plRes.sequence[1].moves)

\* C23: convertPreviewPathsToSequence returns exactly one move per input segment,
\* in input order, each at its segment's end point and with the pen state of the
\* segment's kind (Travel: pen up, Draw: pen down).
C23_OneMovePerSegment ==
  (plPc = "returned" /\ plCall.fn = "convertPreviewPathsToSequence") =>
    LET paths == plCall.arg
        moves == plRes.sequence[1].moves
    IN /\ Len(moves) = Len(paths)
       /\ \A k \in DOMAIN paths :
            /\ moves[k].type = paths[k].type
            /\ moves[k].x = paths[k].endX /\ moves[k].y = paths[k].endY
            /\ moves[k].z = (IF paths[k].type = "move" THEN 0 ELSE -45)

\* C26: saving a Sequence as an interchange document and loading that document
\* back with loadSequence yields a Sequence whose move list and boundingBox are
\* identical to those of the saved Sequence.
C26_SaveLoadRoundTrip ==
  plPc = "reloaded" =>
    /\ ~plRes.thrown
    /\ plRes.sequence[1].moves = plSaved.moves
    /\ plRes.sequence[1].boundingBox = plSaved.boundingBox

LoadCalled == plPc \in {"returned", "reloaded"} /\ plCall.fn = "loadSequence"

\* the sequence a document with moves describes
DocumentSequence(json) ==
  LET moves == [k \in DOMAIN json.moves |-> ParsedMove(json.moves[k])]
  IN Sequence("", moves, calculateBoundingBox(moves))

\* C27: loadSequence throws, and returns no sequence, for every document whose
\* moves list is missing or empty and, when a Validator is attached, for every
\* document whose moves fail validateSequence; a rejected load yields no sequence,
\* not a partial one.
C27_LoadRejects ==
  LoadCalled =>
    /\ (~plCall.arg.hasMoves \/ Len(plCall.arg.moves) = 0) => plRes.thrown
    /\ ( /\ plValidator
         /\ plCall.arg.hasMoves
         /\ ~validateSequence(Config("default"), DocumentSequence(plCall.arg)).valid )
       => plRes.thrown
    /\ plRes.thrown => plRes.sequence = <<>>

\* a document with an empty moves list was rejected
C27_Witness ==
  /\ LoadCalled
  /\ plCall.arg.json /\ plCall.arg.isObject
  /\ plCall.arg.hasMoves
  /\ Len(plCall.arg.moves) = 0
  /\ plRes = Thrown

\* penDown before command k of the call
PenDownBefore(k) == IF k = 1 THEN FALSE ELSE svPenDown[k - 1]

\* the moves the loop held before command k of the call
RECURSIVE MovesBefore(_)
MovesBefore(k) == IF k = 1 THEN <<>> ELSE MovesBefore(k - 1) \o svEmitted[k - 1]

\* C24: in parseSVGPath, for all numeric coordinates, every move-to emits one
\* pen-up Travel and sets the pen state to up; a line-to emits, when the pen is up,
\* a pen-down Travel to its point followed by a Draw to the same point, and when
\* the pen is already down exactly one Draw.
C24_MoveToLineToEmission ==
  svPc = "returned" =>
    \A k \in DOMAIN svCommands :
      LET cmd == svCommands[k]
          px == cmd.x * svScale
          py == cmd.y * svScale
      IN /\ cmd.code = "M" =>
              /\ svEmitted[k] = << Mv("move", px, py, 0) >>
              /\ ~svPenDown[k]
         /\ (cmd.code = "L" /\ ~PenDownBefore(k)) =>
              /\ svEmitted[k] = << Mv("move", px, py, -45), Mv("draw", px, py, NoZ) >>
              /\ svPenDown[k]
         /\ (cmd.code = "L" /\ PenDownBefore(k)) =>
              /\ svEmitted[k] = << Mv("draw", px, py, NoZ) >>
              /\ svPenDown[k]

\* C25: in parseSVGPath, a close-path command appends a Draw back to the path's
\* first recorded point whenever at least one move has already been emitted, and
\* emits nothing when no move exists yet.
C25_ClosePathEmission ==
  svPc = "returned" =>
    \A k \in DOMAIN svCommands :
      svCommands[k].code = "Z" =>
        IF Len(MovesBefore(k)) > 0
          THEN svEmitted[k] =
                 << Mv("draw", MovesBefore(k)[1].x, MovesBefore(k)[1].y, NoZ) >>
          ELSE svEmitted[k] = <<>>

\* C28: after clear(), the add() handle of every operation that was still
\* pending (never started) never settles: it stays pending in every later step,
\* and the operation is never taken up again.
C28_ClearedHandlesNeverSettle ==
  [][\A i \in Ops :
       opState[i] = "dropped" =>
         /\ handle[i] = "pending"
         /\ handle'[i] = "pending"
         /\ opState'[i] = "dropped"]_vars

\* an operation removed by clear() is still pending after a later one resolved
C28_Witness ==
  \E i \in Ops :
    /\ opState[i] = "dropped"
    /\ handle[i] = "pending"
    /\ \E j \in Ops : j > i /\ handle[j] = "resolved"

\* C30: isExecuting is true exactly while a submitted operation is in flight
\* (started and not yet settled), and pendingCommands equals the number of
\* submitted operations that have neither started nor been cleared.
C30_ObservableState ==
  /\ isExecuting <=> (\E i \in Ops : opState[i] = "running")
  /\ pendingCommands = Cardinality({i \in Ops : opState[i] = "queued"})

\* executeSequence is between its first move and its settling
ExecRunning == exPc \in {"pen", "axes", "penup"}

\* the rotations a step adds to the ones issued so far
NewlyIssued == { issued'[k] : k \in (Len(issued) + 1)..Len(issued') }

\* C29: after the Safety Monitor issued an emergency stop while executeSequence is
\* in progress, no further rotation for the remaining moves of that sequence is
\* issued to any axis.
C29_NoRotationAfterMonitorStop ==
  [][(sinceStop >= 0 /\ ExecRunning) => \A r \in NewlyIssued : r.move = 0]_vars


\* ---- checkLimits on a sample with several fields out of range ----

\* the fields of a sample that are out of range for the port, in the order of the
\* tests of checkLimits
OutOfRange(port, st) == Len(ViolationsOf(port, st))

\* C31: in one poll tick, an axis whose sample has several fields out of range
\* produces exactly one handleViolation (for the first out-of-range field)
C31_OneViolationPerSample ==
  (lastCheck.port \in PortSet /\ OutOfRange(lastCheck.port, Samples[lastCheck.sample]) > 1)
     => lastCheck.calls = 1

\* C32: while the cool-down guard is set, further violations produce no additional
\* error notice: at most one alert per cool-down window
C32_OneAlertPerWindow ==
  lastCheck.port \in PortSet =>
     lastCheck.errors <= (IF lastCheck.guard THEN 0 ELSE 1)


\* ---- the poll tick that finds the hub gone ----

\* a step that starts the body of an interval callback
TickRuns == \/ \E k \in Slots : ticks[k] = 0 /\ ticks'[k] # 0
            \/ lastCheck'.port = "hub"

\* C33: a poll tick that finds the hub absent or disconnected stops the polling,
\* emits exactly one error notice, reads no telemetry and issues no brake; while the
\* interval is cleared no tick runs
C33_DisconnectedTick ==
  [][ /\ lastCheck'.port = "hub" =>
           /\ ~hubConnected
           /\ ~monitoring'
           /\ lastCheck'.errors = 1 /\ lastCheck'.calls = 0 /\ lastCheck'.stops = 0
           /\ ticks' = ticks
           /\ estopLog'.by = "none" /\ estopPhase' = estopPhase
      /\ ~monitoring => ~TickRuns ]_vars

C33_Witness ==
  /\ lastCheck.port = "hub" /\ lastCheck.errors = 1
  /\ ~hubConnected /\ ~monitoring
  /\ estopLog.by = "none"


\* ---- a poll tick suspended in a telemetry read when monitoring stops ----

\* C37: after stopMonitoring() the monitor makes no further handleViolation call and
\* no further brake, even when a tick was suspended in a read at that moment
C37_QuietAfterStopMonitoring ==
  [][ ~monitoring => (lastCheck'.calls = 0 /\ estopLog'.by # "monitor") ]_vars


\* ---- what a validator built from MOVEMENT_BOUNDS accepts ----

\* every move is a valid position and every hop between consecutive moves passes
\* validatePath
ValidWalk(cfg, ms) ==
  /\ \A k \in DOMAIN ms : validatePosition(cfg, ms[k].x, ms[k].y).valid
  /\ \A k \in 1..(Len(ms) - 1) :
        validatePath(cfg, ms[k].x, ms[k].y, ms[k + 1].x, ms[k + 1].y).valid

\* C35: with the default MOVEMENT_BOUNDS and simulation off, validateSequence accepts
\* a non-empty sequence whose moves are all valid positions and whose consecutive
\* hops each pass validatePath
C35_DefaultAcceptsValidWalk ==
  (vCfg = "default" /\ vCall.fn = "validateSequence") =>
     LET ms == vCall.args[1].moves
     IN (Len(ms) > 0 /\ ValidWalk(Config("default"), ms)) => vRes.valid


\* ---- the segments the executor drives, against the validator that accepted ----

\* C34: in hardware mode each pair of X/Y rotations the executor commands is for a
\* segment, from its tracked position to the move's target, that validatePath of
\* its validator accepts
C34_DrivenSegmentsValidated ==
  (~exSim /\ exPc = "axes") =>
     validatePath(ExecutorValidator(exSim), exPos[1], exPos[2],
                  exMoves[exI].x, exMoves[exI].y).valid


\* ---- the pen commands of a parsed path through optimizePlotterMoves ----

IsPenCommand(z) == z # NoZ

\* the pen commands (z values) the moves of a list carry, in order
PenCommands(moves) == SelectSeq([k \in DOMAIN moves |-> moves[k].z], IsPenCommand)

\* C38: optimize never drops a pen command: the pen commands of its output are the
\* pen commands of its input, in order, and the pen-up move that the parse appends
\* is still a pen-up move at the end of the output
C38_PenCommandsKept ==
  (svPc = "returned" /\ Len(svRes) > 0) =>
     LET out == optimizePlotterMoves(svRes)
     IN /\ PenCommands(out) = PenCommands(svRes)
        /\ out[Len(out)].z = 0


\* ---- the speeds the executor commands ----

\* C40: for every move the executor executes in hardware mode the commanded per-axis
\* speeds are well-defined numbers: the travel time used as divisor is never zero
C40_SpeedsWellDefined ==
  (~exSim /\ exPc = "axes") =>
     SpeedsDefined(exMoves[exI].x - exPos[1], exMoves[exI].y - exPos[2])


\* ---- the queue without clear(), every command settling ----

\* callers submit, commands settle, and the page starts and stops the safety
\* monitor meanwhile (neither touches the queue)
NextDrain == Add \/ CompleteOk \/ CompleteFail \/ StartMonitoring \/ StopMonitoring

\* every command() that was started settles (with either outcome): the running
\* command is the only one that can take a step, and it eventually does
SpecDrain == Init /\ [][NextDrain]_vars /\ WF_vars(CompleteOk \/ CompleteFail)

\* C39: when every started command settles and clear() is never called, every
\* submitted operation is eventually started, its handle eventually settles, and the
\* queue returns to idle (isExecuting false, pendingCommands 0)
C39_QueueDrains ==
  /\ \A i \in Ops : (opState[i] = "queued") ~> (opState[i] \in {"running", "done"})
  /\ \A i \in Ops : (handle[i] = "pending") ~> Settled(i)
  /\ (submitted > 0) ~> (~executing /\ Len(queue) = 0)

C39_Witness ==
  /\ submitted >= 2 /\ lastCall = "complete"
  /\ \A i \in 1..submitted : opState[i] = "done" /\ Settled(i)
  /\ \E i \in 1..submitted : outcome[i] = "fail"
  /\ ~executing /\ Len(queue) = 0


\* ---- handleLoadSequence in hardware mode: an operation that submits another ----

\* every hardware call succeeds (no command() rejects); it may take its time
NextLoad ==
  \/ LoadMove \/ MoveToPosition \/ AwaitedSettles
  \/ CommandResolves \/ CommandTimeout \/ LateSettle \/ ClockTick

SpecLoad == Init /\ [][NextLoad]_vars

\* C36: the operation of a move that awaits the operation moveToPosition submitted
\* settles on its own: its 5000 ms timeout does not fire while it waits
C36_NestedSettlesWithoutTimeout ==
  [][ \A i \in Ops : (body[i] = "awaiting" /\ handle[i] = "pending")
                        => outcome'[i] # "timeout" ]_vars

=============================================================================
